---- MODULE Spec2Model ----
(***************************************************************************)
(* A model of the ndarray view engine: span resolution, indexer collapsing, *)
(* view-type classification, element addressing and the aliasing-aware      *)
(* data copy.  Assertions are enabled (debug build): a failed assertion     *)
(* aborts the program.                                                      *)
(***************************************************************************)
EXTENDS Integers, Sequences, FiniteSets, TLC

(***************************************************************************)
(* Bounds of the model.                                                     *)
(***************************************************************************)
\* width of size_t / ptrdiff_t in the model (the build has 64)
SizeBits == 10
\* largest axis length of a base array
MaxDim == 3
\* largest number of slicing and rearranging calls applied one after the other
MaxSlices == 2
\* largest number of element accesses and assignments in one run
MaxAccesses == 1
\* largest number of levels of an array built by partition
MaxDepth == 4
\* largest magnitude of the step of a regular span
MaxStep == 2

SizeMod == 2 ^ SizeBits

(***************************************************************************)
(* Integer conversions.                                                     *)
(***************************************************************************)
\* conversion of an integer to size_t
ToSize(x) == x % SizeMod

\* conversion of a size_t to ptrdiff_t
ToPtrdiff(x) == IF (x % SizeMod) >= SizeMod \div 2 THEN (x % SizeMod) - SizeMod ELSE x % SizeMod

\* C++ integer division, truncating toward zero (b # 0)
TruncDiv(a, b) ==
    IF (a >= 0) = (b > 0)
    THEN (IF a >= 0 THEN a ELSE -a) \div (IF b >= 0 THEN b ELSE -b)
    ELSE -((IF a >= 0 THEN a ELSE -a) \div (IF b >= 0 THEN b ELSE -b))

\* _add_if_negative that adds nothing
AddIfNegativeNoWrap(x, y) == ToSize(x)

\* _add_if_negative<size_t>(x, y) for a signed x
AddIfNegative(x, y) == IF x >= 0 THEN ToSize(x) ELSE ToSize(ToSize(x) + ToSize(y))

\* _add_if_non_positive<size_t>(x, y)
AddIfNonPositive(x, y) == IF x > 0 THEN ToSize(x) ELSE ToSize(ToSize(x) + ToSize(y))

\* _check_bound_scalar(index, size) for a size_t index
CheckBoundScalar(index, size) == 0 <= index /\ index < size

(***************************************************************************)
(* Spans.                                                                   *)
(***************************************************************************)
\* uns: the index list of an irregular span is a std::vector<size_t>, which
\* collapse_indexer handles in a branch of its own
AllSpan == [k |-> "all", first |-> 0, last |-> 0, step |-> 0, list |-> <<>>, uns |-> FALSE]
ScalarSpan(i) == [k |-> "scalar", first |-> i, last |-> 0, step |-> 0, list |-> <<>>, uns |-> FALSE]
SimpleSpan(i, j) == [k |-> "simple", first |-> i, last |-> j, step |-> 0, list |-> <<>>, uns |-> FALSE]
RegularSpan(i, j, s) == [k |-> "regular", first |-> i, last |-> j, step |-> s, list |-> <<>>, uns |-> FALSE]
IrregularSpan(l) == [k |-> "irregular", first |-> 0, last |-> 0, step |-> 0, list |-> l, uns |-> FALSE]
IrregularSpanU(l) == [k |-> "irregular", first |-> 0, last |-> 0, step |-> 0, list |-> l, uns |-> TRUE]

\* the named constant Reversed
Reversed == RegularSpan(-1, -1, -1)

\* _simple_span::first: [ok] is FALSE when the assertion fires
SimpleFirst(sp, size) ==
    LET ret == AddIfNegative(sp.first, size)
    IN  [ok |-> ret <= size, val |-> ret]

\* _simple_span::last with a last of 0 kept as position 0
SimpleLastNoZeroWrap(sp, size) ==
    LET ret == AddIfNegative(sp.last, size)
    IN  [ok |-> ret <= size, val |-> ret]

\* _simple_span::last
SimpleLast(sp, size) ==
    LET ret == AddIfNonPositive(sp.last, size)
    IN  [ok |-> ret <= size, val |-> ret]

\* _regular_span::first
RegularFirst(sp, size) ==
    LET ret == IF sp.step > 0
               THEN AddIfNegative(sp.first, size)
               ELSE ToSize(AddIfNonPositive(sp.first + 1, size) - 1)
    IN  [ok |-> sp.step # 0, val |-> ToPtrdiff(ret)]

\* _regular_span::last
RegularLast(sp, size) ==
    LET ret == IF sp.step > 0
               THEN AddIfNonPositive(sp.last, size)
               ELSE ToSize(AddIfNegative(sp.last + 1, size) - 1)
    IN  [ok |-> sp.step # 0, val |-> ToPtrdiff(ret)]

(***************************************************************************)
(* Indexers.                                                                *)
(***************************************************************************)
ScalarIndexer == [k |-> "scalar", size |-> 0, step |-> 0, list |-> <<>>]
AllIndexer == [k |-> "all", size |-> 0, step |-> 0, list |-> <<>>]
SimpleIndexer(n) == [k |-> "simple", size |-> n, step |-> 0, list |-> <<>>]
RegularIndexer(n, s) == [k |-> "regular", size |-> n, step |-> s, list |-> <<>>]
IrregularIndexer(l) == [k |-> "irregular", size |-> 0, step |-> 0, list |-> l]

\* indexer.size(base_size)
IndexerSize(ix, base_size) ==
    CASE ix.k = "all" -> base_size
      [] ix.k = "irregular" -> Len(ix.list)
      [] OTHER -> ix.size

\* indexer.step()
IndexerStep(ix) == IF ix.k = "regular" THEN ix.step ELSE 1

\* indexer[i]
IndexerGet(ix, i) ==
    CASE ix.k = "regular" -> ToSize(i * ix.step)
      [] ix.k = "irregular" -> ix.list[i + 1]
      [] OTHER -> i

\* indexer.at(i), the argument being converted to size_t
IndexerAt(ix, i) ==
    LET u == ToSize(i)
        ok == CASE ix.k = "all" -> TRUE
                [] ix.k = "irregular" -> u < Len(ix.list)
                [] OTHER -> CheckBoundScalar(u, ix.size)
    IN  [ok |-> ok, val |-> IF ok THEN IndexerGet(ix, u) ELSE 0]

(***************************************************************************)
(* Collapsing a span into a non-scalar indexer.                             *)
(***************************************************************************)
\* _indexer_collapsing with a simple span on a regular indexer giving a
\* simple indexer
IndexerCollapsingSimpleWins(ik, sk) ==
    IF sk = "scalar" THEN "scalar"
    ELSE IF sk = "all" THEN ik
    ELSE IF sk = "simple" THEN (IF ik = "irregular" THEN "irregular" ELSE "simple")
    ELSE IF sk = "regular" THEN (IF ik = "irregular" THEN "irregular" ELSE "regular")
    ELSE "irregular"

\* _indexer_collapsing with an integer keeping the kind of the indexer
IndexerCollapsingKeepAxis(ik, sk) ==
    IF sk = "scalar" THEN ik
    ELSE IF sk = "all" THEN ik
    ELSE IF sk = "simple" THEN (IF ik = "all" THEN "simple" ELSE ik)
    ELSE IF sk = "regular" THEN (IF ik = "irregular" THEN "irregular" ELSE "regular")
    ELSE "irregular"

\* _indexer_collapsing<Indexer, Span>::type, as indexer kinds
IndexerCollapsing(ik, sk) ==
    IF sk = "scalar" THEN "scalar"
    ELSE IF sk = "all" THEN ik
    ELSE IF sk = "simple" THEN (IF ik = "all" THEN "simple" ELSE ik)
    ELSE IF sk = "regular" THEN (IF ik = "irregular" THEN "irregular" ELSE "regular")
    ELSE "irregular"

\* the result of a collapse whose assertion fired
CollapseFail == [ok |-> FALSE, offset |-> 0, indexer |-> ScalarIndexer]

\* the list indexer.at(first), indexer.at(first + step), ... of n entries
AtList(ix, first, step, n) == [i \in 1..n |-> IndexerAt(ix, first + (i - 1) * step)]

\* all reads of a list of indexer.at() results succeeded
AllOk(rs) == \A i \in 1..Len(rs) : rs[i].ok

\* the values of a list of indexer.at() results
Vals(rs) == [i \in 1..Len(rs) |-> rs[i].val]

\* collapse_indexer, span_v == scalar, without the assertion on the position
CollapseScalarUnchecked(indexer_size, ix, sp) ==
    LET pos == AddIfNegative(sp.first, indexer_size)
        at == IndexerAt(ix, pos)
    IN  IF at.ok
        THEN [ok |-> TRUE, offset |-> at.val, indexer |-> ScalarIndexer]
        ELSE CollapseFail

\* collapse_indexer, span_v == scalar
CollapseScalar(indexer_size, ix, sp) ==
    LET pos == AddIfNegative(sp.first, indexer_size)
        at == IndexerAt(ix, pos)
    IN  IF pos < indexer_size /\ at.ok
        THEN [ok |-> TRUE, offset |-> at.val, indexer |-> ScalarIndexer]
        ELSE CollapseFail

\* collapse_indexer, span_v == simple
CollapseSimple(indexer_size, ix, sp) ==
    LET f == SimpleFirst(sp, indexer_size)
        l == SimpleLast(sp, indexer_size)
        first == f.val
        last == l.val
    IN  IF ~(f.ok /\ l.ok /\ first <= last) THEN CollapseFail
        ELSE IF ix.k = "irregular"
        THEN LET rs == AtList(ix, first, 1, last - first)
             IN  IF AllOk(rs)
                 THEN [ok |-> TRUE, offset |-> 0, indexer |-> IrregularIndexer(Vals(rs))]
                 ELSE CollapseFail
        ELSE LET at == IndexerAt(ix, first)
             IN  IF ~at.ok THEN CollapseFail
                 ELSE IF ix.k = "regular"
                 THEN [ok |-> TRUE, offset |-> at.val,
                       indexer |-> RegularIndexer(last - first, IndexerStep(ix))]
                 ELSE [ok |-> TRUE, offset |-> at.val, indexer |-> SimpleIndexer(last - first)]

\* the size computed for a regular span from its resolved bounds
RegularSize(first, last, step) ==
    ToSize(IF step > 0
           THEN TruncDiv(last - first - 1, step) + 1
           ELSE TruncDiv(first - last - 1, -step) + 1)

\* collapse_indexer, span_v == regular, with the resolved first taken as the
\* offset instead of the position the indexer gives it
CollapseRegularOffsetFirst(indexer_size, ix, sp) ==
    LET f == RegularFirst(sp, indexer_size)
        l == RegularLast(sp, indexer_size)
        first == f.val
        last == l.val
        step == sp.step
    IN  IF ~(f.ok /\ l.ok) THEN CollapseFail
        ELSE IF ~(IF step > 0 THEN first <= last ELSE IF step < 0 THEN first >= last ELSE FALSE)
        THEN CollapseFail
        ELSE LET size == RegularSize(first, last, step)
             IN  IF ix.k = "irregular"
                 THEN LET rs == AtList(ix, first, step, size)
                      IN  IF AllOk(rs)
                          THEN [ok |-> TRUE, offset |-> 0, indexer |-> IrregularIndexer(Vals(rs))]
                          ELSE CollapseFail
                 ELSE LET at == IndexerAt(ix, first)
                      IN  IF at.ok
                          THEN [ok |-> TRUE, offset |-> ToSize(first),
                                indexer |-> RegularIndexer(size, step * IndexerStep(ix))]
                          ELSE CollapseFail

\* collapse_indexer, span_v == regular, without the assertions on the step:
\* a step of 0 is replaced by 1
CollapseRegularDefaultStep(indexer_size, ix, sp) ==
    LET step == IF sp.step = 0 THEN 1 ELSE sp.step
        first == ToPtrdiff(IF step > 0 THEN AddIfNegative(sp.first, indexer_size)
                           ELSE ToSize(AddIfNonPositive(sp.first + 1, indexer_size) - 1))
        last == ToPtrdiff(IF step > 0 THEN AddIfNonPositive(sp.last, indexer_size)
                          ELSE ToSize(AddIfNegative(sp.last + 1, indexer_size) - 1))
    IN  IF ~(IF step > 0 THEN first <= last ELSE first >= last)
        THEN CollapseFail
        ELSE LET size == RegularSize(first, last, step)
             IN  IF ix.k = "irregular"
                 THEN LET rs == AtList(ix, first, step, size)
                      IN  IF AllOk(rs)
                          THEN [ok |-> TRUE, offset |-> 0, indexer |-> IrregularIndexer(Vals(rs))]
                          ELSE CollapseFail
                 ELSE LET at == IndexerAt(ix, first)
                      IN  IF at.ok
                          THEN [ok |-> TRUE, offset |-> at.val,
                                indexer |-> RegularIndexer(size, step * IndexerStep(ix))]
                          ELSE CollapseFail

\* collapse_indexer, span_v == regular, with the step of the span taken as
\* the step of the result instead of its product with the indexer's step
CollapseRegularKeepStep(indexer_size, ix, sp) ==
    LET f == RegularFirst(sp, indexer_size)
        l == RegularLast(sp, indexer_size)
        first == f.val
        last == l.val
        step == sp.step
    IN  IF ~(f.ok /\ l.ok) THEN CollapseFail
        ELSE IF ~(IF step > 0 THEN first <= last ELSE IF step < 0 THEN first >= last ELSE FALSE)
        THEN CollapseFail
        ELSE LET size == RegularSize(first, last, step)
             IN  IF ix.k = "irregular"
                 THEN LET rs == AtList(ix, first, step, size)
                      IN  IF AllOk(rs)
                          THEN [ok |-> TRUE, offset |-> 0, indexer |-> IrregularIndexer(Vals(rs))]
                          ELSE CollapseFail
                 ELSE LET at == IndexerAt(ix, first)
                      IN  IF at.ok
                          THEN [ok |-> TRUE, offset |-> at.val, indexer |-> RegularIndexer(size, step)]
                          ELSE CollapseFail

\* collapse_indexer, span_v == regular
CollapseRegular(indexer_size, ix, sp) ==
    LET f == RegularFirst(sp, indexer_size)
        l == RegularLast(sp, indexer_size)
        first == f.val
        last == l.val
        step == sp.step
    IN  IF ~(f.ok /\ l.ok) THEN CollapseFail
        ELSE IF ~(IF step > 0 THEN first <= last ELSE IF step < 0 THEN first >= last ELSE FALSE)
        THEN CollapseFail
        ELSE LET size == RegularSize(first, last, step)
             IN  IF ix.k = "irregular"
                 THEN LET rs == AtList(ix, first, step, size)
                      IN  IF AllOk(rs)
                          THEN [ok |-> TRUE, offset |-> 0, indexer |-> IrregularIndexer(Vals(rs))]
                          ELSE CollapseFail
                 ELSE LET at == IndexerAt(ix, first)
                      IN  IF at.ok
                          THEN [ok |-> TRUE, offset |-> at.val,
                                indexer |-> RegularIndexer(size, step * IndexerStep(ix))]
                          ELSE CollapseFail

\* collapse_indexer, span_v == irregular
CollapseIrregular(indexer_size, ix, sp) ==
    LET n == Len(sp.list)
        pos == [i \in 1..n |-> IF sp.uns THEN ToSize(sp.list[i])
                                ELSE AddIfNegative(sp.list[i], indexer_size)]
        rs == [i \in 1..n |-> IndexerAt(ix, pos[i])]
    IN  IF (sp.uns \/ \A i \in 1..n : pos[i] < indexer_size) /\ AllOk(rs)
        THEN [ok |-> TRUE, offset |-> 0, indexer |-> IrregularIndexer(Vals(rs))]
        ELSE CollapseFail

\* collapse_indexer(base_size, indexer, span): [ok] is FALSE when an assertion
\* fires or vector::at throws
CollapseIndexer(base_size, ix, sp) ==
    LET indexer_size == IndexerSize(ix, base_size)
    IN  CASE sp.k = "all" -> [ok |-> TRUE, offset |-> 0, indexer |-> ix]
          [] sp.k = "scalar" -> CollapseScalar(indexer_size, ix, sp)
          [] sp.k = "simple" -> CollapseSimple(indexer_size, ix, sp)
          [] sp.k = "regular" -> CollapseRegular(indexer_size, ix, sp)
          [] OTHER -> CollapseIrregular(indexer_size, ix, sp)

(***************************************************************************)
(* Indexer tuples and view types.                                           *)
(***************************************************************************)
\* the product of the entries lo..hi of a sequence of sizes
RECURSIVE ProdRange(_, _, _)
ProdRange(d, lo, hi) == IF lo > hi THEN 1 ELSE d[lo] * ProdRange(d, lo + 1, hi)

\* make_non_scalar_indexer_table: the base levels with a non-scalar indexer
RECURSIVE NonScalarTableFrom(_, _)
NonScalarTableFrom(ixs, i) ==
    IF i > Len(ixs) THEN <<>>
    ELSE IF ixs[i].k = "scalar" THEN NonScalarTableFrom(ixs, i + 1)
    ELSE <<i>> \o NonScalarTableFrom(ixs, i + 1)

NonScalarTable(ixs) == NonScalarTableFrom(ixs, 1)

\* indexer_tuple_depth: N minus one for every scalar indexer
RECURSIVE IndexerTupleDepthFrom(_, _, _)
IndexerTupleDepthFrom(ixs, i, n) ==
    IF i > Len(ixs) THEN n
    ELSE IndexerTupleDepthFrom(ixs, i + 1, IF ixs[i].k = "scalar" THEN n - 1 ELSE n)

IndexerTupleDepth(ixs) == IndexerTupleDepthFrom(ixs, 1, Len(ixs))

\* one step of identify_view_type with a gap after a simple run going
\* unnoticed
ViewTypeStepNoGap(sv, iv) ==
    IF sv = "scalar"
    THEN (IF iv = "scalar" THEN "scalar"
          ELSE IF iv = "all" THEN "simple"
          ELSE IF iv = "simple" THEN "simple"
          ELSE IF iv = "regular" THEN "regular" ELSE "irregular")
    ELSE IF sv = "simple"
    THEN (IF iv = "scalar" THEN "simple"
          ELSE IF iv = "all" THEN "simple" ELSE "irregular")
    ELSE IF sv = "regular" /\ iv = "scalar" THEN "regular"
    ELSE "irregular"

\* one step of identify_view_type: the new state for state sv and indexer kind iv
ViewTypeStep(sv, iv) ==
    IF sv = "scalar"
    THEN (IF iv = "scalar" THEN "scalar"
          ELSE IF iv = "all" THEN "simple"
          ELSE IF iv = "simple" THEN "simple"
          ELSE IF iv = "regular" THEN "regular" ELSE "irregular")
    ELSE IF sv = "simple"
    THEN (IF iv = "scalar" THEN "regular"
          ELSE IF iv = "all" THEN "simple" ELSE "irregular")
    ELSE IF sv = "regular" /\ iv = "scalar" THEN "regular"
    ELSE "irregular"

\* identify_view_type, from level i in state sv
RECURSIVE IdentifyViewTypeFrom(_, _, _)
IdentifyViewTypeFrom(ixs, i, sv) ==
    IF i > Len(ixs) THEN sv
    ELSE IdentifyViewTypeFrom(ixs, i + 1, ViewTypeStep(sv, ixs[i].k))

IdentifyViewType(ixs) == IdentifyViewTypeFrom(ixs, 1, "scalar")

\* _stride_depth_v: the base level after the last non-scalar indexer
StrideDepth(ixs) == LET t == NonScalarTable(ixs) IN t[Len(t)]

(***************************************************************************)
(* Views.  ptr is the base pointer as an element offset from the start of   *)
(* the buffer of the base array; vt is "array" for the owning array.        *)
(***************************************************************************)
\* id stands for the dims-identity pointer of the base array.
MakeView(id, vt, ptr, ixs, bstride) ==
    [id |-> id, vt |-> vt, ptr |-> ptr, ix |-> ixs, bstride |-> bstride]

\* the owning array seen as an operand: n_all_indexer_tuple, data()
ArrayOperand(id, d) == MakeView(id, "array", 0, [i \in 1..Len(d) |-> AllIndexer], 1)

\* _take_ith_span: an implicit all span when i is out of range
TakeIthSpan(spans, i) == IF i <= Len(spans) THEN spans[i] ELSE AllSpan

\* dimension<I>() of a view, I counting non-scalar levels from 1
Dimension(d, v, lv) ==
    LET b == NonScalarTable(v.ix)[lv] IN IndexerSize(v.ix[b], d[b])

\* dimensions() of a view
Dimensions(d, v) == [lv \in 1..IndexerTupleDepth(v.ix) |-> Dimension(d, v, lv)]

\* size() of a view or array
ViewSize(d, v) == ProdRange(Dimensions(d, v), 1, IndexerTupleDepth(v.ix))

\* get_collapsed_view with get_collapsed_view_impl: [ok] is FALSE when an
\* assertion fired in some collapse_indexer
GetCollapsedView(d, v, spans) ==
    LET n == Len(d)
        sc == [ic \in 1..n |-> Cardinality({j \in 1..ic : v.ix[j].k # "scalar"})]
        r == [ic \in 1..n |->
                IF v.ix[ic].k = "scalar"
                THEN [ok |-> TRUE, offset |-> 0, indexer |-> ScalarIndexer]
                ELSE CollapseIndexer(d[ic], v.ix[ic], TakeIthSpan(spans, sc[ic]))]
        new_indexers == [ic \in 1..n |->
                [r[ic].indexer EXCEPT !.k =
                    IF v.ix[ic].k = "scalar" THEN "scalar"
                    ELSE IndexerCollapsing(v.ix[ic].k, TakeIthSpan(spans, sc[ic]).k)]]
        base_offset[ic \in 0..n] ==
            IF ic = 0 THEN 0 ELSE ToSize(base_offset[ic - 1] * d[ic] + r[ic].offset)
        view_type == IdentifyViewType(new_indexers)
        base_stride == IF view_type = "scalar" THEN 1
                       ELSE ToSize(ProdRange(d, StrideDepth(new_indexers) + 1, n))
    IN  [ok |-> \A ic \in 1..n : r[ic].ok,
         view |-> MakeView(v.id, view_type, v.ptr + ToPtrdiff(base_offset[n]), new_indexers,
                           base_stride)]

\* _get_level_base_position: [ok] is FALSE when the assertion fires
GetLevelBasePosition(d, v, lv, pos) ==
    LET dim_i == Dimension(d, v, lv)
        pos_i == AddIfNegative(pos, dim_i)
    IN  [ok |-> pos_i < dim_i,
         val |-> IF pos_i < dim_i THEN IndexerGet(v.ix[NonScalarTable(v.ix)[lv]], pos_i) ELSE 0]

\* array_view_base::_get_position<Tuple, LC, BC>
RECURSIVE GetPosition(_, _, _, _, _)
GetPosition(d, v, idx, lc, bc) ==
    IF NonScalarTable(v.ix)[lc] = bc
    THEN LET p == GetLevelBasePosition(d, v, lc, idx[lc])
         IN  IF lc = 1 THEN p
             ELSE LET q == GetPosition(d, v, idx, lc - 1, bc - 1)
                  IN  [ok |-> p.ok /\ q.ok, val |-> ToSize(p.val + d[bc] * q.val)]
    ELSE LET q == GetPosition(d, v, idx, lc, bc - 1)
         IN  [ok |-> q.ok, val |-> ToSize(d[bc] * q.val)]

\* tuple_at: the buffer position of the element at an index tuple, through
\* _get_position and _base_at
TupleAt(d, v, idx) ==
    LET lc == IndexerTupleDepth(v.ix)
        p == GetPosition(d, v, idx, lc, NonScalarTable(v.ix)[lc])
    IN  [ok |-> p.ok, pos |-> v.ptr + ToPtrdiff(p.val * v.bstride)]

\* array::_get_position<I> with the earlier levels scaled by the dimension
\* of the first level instead of the current one
RECURSIVE ArrayGetPositionFirstDim(_, _, _)
ArrayGetPositionFirstDim(d, idx, i) ==
    LET dim_i == d[i]
        pos_i == AddIfNegative(idx[i], dim_i)
    IN  IF i = 1 THEN [ok |-> pos_i < dim_i, val |-> pos_i]
        ELSE LET q == ArrayGetPositionFirstDim(d, idx, i - 1)
             IN  [ok |-> pos_i < dim_i /\ q.ok, val |-> ToSize(pos_i + d[1] * q.val)]

\* array::_get_position<I>: the linear position of an index tuple in the array
RECURSIVE ArrayGetPosition(_, _, _)
ArrayGetPosition(d, idx, i) ==
    LET dim_i == d[i]
        pos_i == AddIfNegative(idx[i], dim_i)
    IN  IF i = 1 THEN [ok |-> pos_i < dim_i, val |-> pos_i]
        ELSE LET q == ArrayGetPosition(d, idx, i - 1)
             IN  [ok |-> pos_i < dim_i /\ q.ok, val |-> ToSize(pos_i + dim_i * q.val)]

\* at(indices...) on the array or on a view
ElemAt(d, v, idx) ==
    IF v.vt = "array"
    THEN LET p == ArrayGetPosition(d, idx, Len(d)) IN [ok |-> p.ok, pos |-> p.val]
    ELSE TupleAt(d, v, idx)

\* stride() with the step of the only non-scalar indexer left out of the
\* stride of a regular view of one level
StrideNoStep(v) ==
    LET depth == IndexerTupleDepth(v.ix)
        has_base_stride == StrideDepth(v.ix) # Len(v.ix)
        step0 == IndexerStep(v.ix[NonScalarTable(v.ix)[1]])
    IN  CASE v.vt \in {"array", "simple"} -> 1
          [] v.vt = "irregular" -> IF has_base_stride THEN ToPtrdiff(v.bstride) ELSE 1
          [] OTHER ->
               IF depth = 1 /\ has_base_stride THEN ToPtrdiff(v.bstride)
               ELSE IF depth # 1 /\ has_base_stride THEN ToPtrdiff(v.bstride)
               ELSE IF depth = 1 THEN step0
               ELSE 1

\* simple_view::stride, regular_view::stride, irregular_view::stride
Stride(v) ==
    LET depth == IndexerTupleDepth(v.ix)
        has_base_stride == StrideDepth(v.ix) # Len(v.ix)
        step0 == IndexerStep(v.ix[NonScalarTable(v.ix)[1]])
    IN  CASE v.vt \in {"array", "simple"} -> 1
          [] v.vt = "irregular" -> IF has_base_stride THEN ToPtrdiff(v.bstride) ELSE 1
          [] OTHER ->
               IF depth = 1 /\ has_base_stride THEN ToPtrdiff(v.bstride * step0)
               ELSE IF depth # 1 /\ has_base_stride THEN ToPtrdiff(v.bstride)
               ELSE IF depth = 1 THEN step0
               ELSE 1

\* irregular_view::traverse_impl<BC, LC>: the buffer positions visited, in order
RECURSIVE TraverseImpl(_, _, _, _, _)
RECURSIVE TraverseLoop(_, _, _, _, _, _)
TraverseImpl(d, v, bc, lc, offset) ==
    LET new_offset == ToSize(offset * d[bc])
    IN  IF NonScalarTable(v.ix)[lc] > bc
        THEN TraverseImpl(d, v, bc + 1, lc, new_offset)
        ELSE IF lc = IndexerTupleDepth(v.ix)
        THEN [i \in 1..Dimension(d, v, lc) |->
                v.ptr + ToPtrdiff(ToSize(new_offset + IndexerGet(v.ix[bc], i - 1)) * v.bstride)]
        ELSE TraverseLoop(d, v, bc, lc, new_offset, 0)

\* the loop of traverse_impl before the last level running from the last
\* index down to the first
TraverseLoopBackward(d, v, bc, lc, new_offset, i) ==
    IF i >= Dimension(d, v, lc) THEN <<>>
    ELSE TraverseLoop(d, v, bc, lc, new_offset, i + 1)
         \o TraverseImpl(d, v, bc + 1, lc + 1, ToSize(new_offset + IndexerGet(v.ix[bc], i)))

\* the loop of traverse_impl before the last level, from iteration i on
TraverseLoop(d, v, bc, lc, new_offset, i) ==
    IF i >= Dimension(d, v, lc) THEN <<>>
    ELSE TraverseImpl(d, v, bc + 1, lc + 1, ToSize(new_offset + IndexerGet(v.ix[bc], i)))
         \o TraverseLoop(d, v, bc, lc, new_offset, i + 1)

\* copy_to / copy_from walking a regular view element by element of the
\* buffer, its stride left out
CopyPositionsUnitStride(d, v, size) ==
    CASE v.vt = "array" -> [i \in 1..size |-> i - 1]
      [] v.vt \in {"simple", "regular"} -> [i \in 1..size |-> v.ptr + (i - 1)]
      [] OTHER -> TraverseImpl(d, v, 1, 1, 0)

\* the buffer positions that copy_to / copy_from of an operand walk, in order
CopyPositions(d, v, size) ==
    CASE v.vt = "array" -> [i \in 1..size |-> i - 1]
      [] v.vt = "simple" -> [i \in 1..size |-> v.ptr + (i - 1)]
      [] v.vt = "regular" -> [i \in 1..size |-> v.ptr + (i - 1) * Stride(v)]
      [] OTHER -> TraverseImpl(d, v, 1, 1, 0)

(***************************************************************************)
(* Aliasing-aware data copy.  A buffer is a sequence; position p of the     *)
(* buffer is entry p + 1.                                                   *)
(***************************************************************************)
\* every position of a walk lies inside a buffer of n elements
InBuffer(ps, n) == \A i \in 1..Len(ps) : 0 <= ps[i] /\ ps[i] < n

\* the loops of copy_to / copy_from run against an iterator over the other
\* operand: element i is read from sbuf (the destination buffer itself when
\* same) and written before element i + 1 is read
RECURSIVE CopyLoop(_, _, _, _, _, _)
CopyLoop(buf, sbuf, same, sp, dp, i) ==
    IF i > Len(dp) THEN buf
    ELSE CopyLoop([buf EXCEPT ![dp[i] + 1] = IF same THEN buf[sp[i] + 1] ELSE sbuf[sp[i] + 1]],
                  sbuf, same, sp, dp, i + 1)

\* sizeof of the element types of the model
SizeOf(t) ==
    CASE t = "char" -> 1
      [] t = "int" -> 4
      [] t = "unsigned" -> 4
      [] OTHER -> 8

\* temp_type of aliased_data_copy taken to be the element type of the source
TempTypeOfSource(src_t, dst_t) == src_t

\* temp_type of aliased_data_copy: std::conditional_t on the two sizeofs
TempType(src_t, dst_t) == IF SizeOf(src_t) < SizeOf(dst_t) THEN src_t ELSE dst_t

\* the temporary of aliased_data_copy: std::vector<temp_type> temp(src.size())
TempBuffer(d, src, src_t, dst_t) ==
    [len |-> ViewSize(d, src), type |-> TempType(src_t, dst_t),
     src_t |-> src_t, dst_t |-> dst_t]

\* no temporary was made
NoTemp == [len |-> 0, type |-> "none", src_t |-> "none", dst_t |-> "none"]

\* aliased_data_copy: source to temp, then temp to destination
AliasedDataCopy(buf, sbuf, sp, dp) ==
    LET temp == [i \in 1..Len(sp) |-> sbuf[sp[i] + 1]]
    IN  CopyLoop(buf, temp, FALSE, [i \in 1..Len(sp) |-> i - 1], dp, 1)

\* no_alias_data_copy copying directly for every pair of operands
NoAliasNeverStaged(src, dst) == FALSE

\* no_alias_data_copy: staged only when both operands are irregular views
NoAliasStaged(src, dst) == src.vt = "irregular" /\ dst.vt = "irregular"

\* the test of data_copy on two simple / regular views of one array: TRUE
\* when the views are taken to be disjoint
NotOverlapped(src, dst, size) ==
    LET src_ptr == src.ptr
        dst_ptr == dst.ptr
        absv(x) == IF x < 0 THEN -x ELSE x
    IN  IF src.vt = "simple" /\ dst.vt = "simple"
        THEN src_ptr + size <= dst_ptr \/ dst_ptr + size <= src_ptr
        ELSE IF src.vt = "regular" /\ dst.vt = "regular" /\ Stride(src) = Stride(dst)
        THEN LET stride == Stride(src)
             IN  \/ absv(src_ptr - dst_ptr) % absv(stride) # 0
                 \/ src_ptr + ToPtrdiff(ToSize(size * stride)) <= dst_ptr
                 \/ dst_ptr + ToPtrdiff(ToSize(size * stride)) <= src_ptr
        ELSE \/ src_ptr + ToPtrdiff(ToSize(size * Stride(src))) <= dst_ptr
             \/ dst_ptr + ToPtrdiff(ToSize(size * Stride(dst))) <= src_ptr

\* the branch data_copy takes: "none", "direct" or "staged"
CopyPath(src, dst, size) ==
    IF src.id # dst.id
    THEN (IF NoAliasStaged(src, dst) THEN "staged" ELSE "direct")
    ELSE IF src.vt = "array" /\ dst.vt = "array" THEN "none"
    ELSE IF src.vt \in {"array", "irregular"} \/ dst.vt \in {"array", "irregular"}
    THEN "staged"
    ELSE IF NotOverlapped(src, dst, size) THEN "direct" ELSE "staged"

\* data_copy asserting that the operands have the same size instead of the
\* same dimensions
DataCopySizeOnly(d, buf, sbuf, src, dst) ==
    LET same_size == ViewSize(d, src) = ViewSize(d, dst)
        size == IF src.vt = "array" THEN ViewSize(d, src) ELSE ViewSize(d, dst)
        path == CopyPath(src, dst, size)
        sp == CopyPositions(d, src, size)
        dp == CopyPositions(d, dst, size)
        inb == InBuffer(sp, Len(sbuf)) /\ InBuffer(dp, Len(buf))
    IN  IF ~same_size THEN [ok |-> FALSE, ub |-> FALSE, path |-> "none", buf |-> buf]
        ELSE IF path = "none" THEN [ok |-> TRUE, ub |-> FALSE, path |-> path, buf |-> buf]
        ELSE IF ~inb THEN [ok |-> TRUE, ub |-> TRUE, path |-> path, buf |-> buf]
        ELSE [ok |-> TRUE, ub |-> FALSE, path |-> path,
              buf |-> IF path = "direct"
                      THEN CopyLoop(buf, sbuf, src.id = dst.id, sp, dp, 1)
                      ELSE AliasedDataCopy(buf, sbuf, sp, dp)]

\* data_copy(src, dst) on the destination buffer buf, the source being read
\* from sbuf: ok is FALSE when the dimension assertion fires, ub is TRUE
\* when an element outside a buffer would be touched
DataCopy(d, buf, sbuf, src, dst) ==
    LET same_dims == Dimensions(d, src) = Dimensions(d, dst)
        size == IF src.vt = "array" THEN ViewSize(d, src) ELSE ViewSize(d, dst)
        path == CopyPath(src, dst, size)
        sp == CopyPositions(d, src, size)
        dp == CopyPositions(d, dst, size)
        inb == InBuffer(sp, Len(sbuf)) /\ InBuffer(dp, Len(buf))
    IN  IF ~same_dims THEN [ok |-> FALSE, ub |-> FALSE, path |-> "none", buf |-> buf]
        ELSE IF path = "none" THEN [ok |-> TRUE, ub |-> FALSE, path |-> path, buf |-> buf]
        ELSE IF ~inb THEN [ok |-> TRUE, ub |-> TRUE, path |-> path, buf |-> buf]
        ELSE [ok |-> TRUE, ub |-> FALSE, path |-> path,
              buf |-> IF path = "direct"
                      THEN CopyLoop(buf, sbuf, src.id = dst.id, sp, dp, 1)
                      ELSE AliasedDataCopy(buf, sbuf, sp, dp)]

(***************************************************************************)
(* Rearranging an array: reshape, flatten, partition.                       *)
(***************************************************************************)
\* array::_total_size_impl: the product of the dimensions
TotalSize(d) == ToSize(ProdRange(d, 1, Len(d)))

\* array::_check_size with the assertion compiled out
CheckSizeSkipped(buf, d) == TRUE

\* array::_check_size: the size of the data is the product of the dimensions
CheckSize(buf, d) == Len(buf) = TotalSize(d)

\* _reshape_impl handing the data over rotated by one element
ReshapeImplRotated(buf, d) ==
    [ok |-> CheckSize(buf, d),
     data |-> [i \in 1..Len(buf) |-> buf[(i % Len(buf)) + 1]],
     dims |-> d]

\* _reshape_impl on an array, vector access: array(get_vector(src), dims)
\* keeps the data and takes the dimensions; [ok] is FALSE when the assertion
\* of the constructor fires
ReshapeImpl(buf, d) == [ok |-> CheckSize(buf, d), data |-> buf, dims |-> d]

\* reshape(src, dims): _reshape_impl, then ret._check_size()
ReshapeArray(buf, d) ==
    LET ret == ReshapeImpl(buf, d)
    IN  [ok |-> ret.ok /\ CheckSize(ret.data, ret.dims), data |-> ret.data, dims |-> ret.dims]

\* flatten(src): _reshape_impl<1>(src, {src.size()})
FlattenArray(buf) ==
    LET ret == ReshapeImpl(buf, <<Len(buf)>>)
    IN  [ok |-> ret.ok /\ CheckSize(ret.data, ret.dims), data |-> ret.data, dims |-> ret.dims]

\* new_dims of partition with each pair in the order (part_dim_i, dim_i /
\* part_dim_i)
NewDimsInnerFirst(d, part_dims) ==
    LET part_depth == Len(part_dims)
    IN  [ok |-> \A i \in 1..part_depth : d[i] % part_dims[i] = 0,
         dims |-> [j \in 1..(Len(d) + part_depth) |->
                      IF j > 2 * part_depth THEN d[j - part_depth]
                      ELSE IF j % 2 = 0 THEN d[j \div 2] \div part_dims[j \div 2]
                      ELSE part_dims[(j + 1) \div 2]]]

\* new_dims of partition: each of the first Len(part_dims) dimensions becomes
\* the pair (dim_i / part_dim_i, part_dim_i), the remaining ones are copied;
\* [ok] is FALSE when assert(remainder == 0) fires
NewDims(d, part_dims) ==
    LET part_depth == Len(part_dims)
    IN  [ok |-> \A i \in 1..part_depth : d[i] % part_dims[i] = 0,
         dims |-> [j \in 1..(Len(d) + part_depth) |->
                      IF j > 2 * part_depth THEN d[j - part_depth]
                      ELSE IF j % 2 = 1 THEN d[(j + 1) \div 2] \div part_dims[(j + 1) \div 2]
                      ELSE part_dims[j \div 2]]]

\* partition without its assertions: the result is returned whatever the
\* remainders
PartitionUnchecked(buf, d, part_dims) ==
    [ok |-> TRUE, data |-> buf, dims |-> NewDims(d, part_dims).dims]

\* partition(src, part_dims): new_dims, then _reshape_impl
PartitionArray(buf, d, part_dims) ==
    LET nd == NewDims(d, part_dims)
        ret == ReshapeImpl(buf, nd.dims)
    IN  [ok |-> nd.ok /\ ret.ok, data |-> ret.data, dims |-> ret.dims]

(***************************************************************************)
(* Irregular iterators: an index tuple walked as a counter whose radices    *)
(* are the dimensions of the view.                                          *)
(***************************************************************************)
\* explicit_inc<Level>(): increment by 1 on level lv, carrying into lv - 1
RECURSIVE ExplicitInc1(_, _, _)
ExplicitInc1(indices, dm, lv) ==
    LET dim == dm[lv]
        v == ToSize(indices[lv] + 1)
    IN  IF lv > 1 /\ ~(v < dim)
        THEN ExplicitInc1([indices EXCEPT ![lv] = 0], dm, lv - 1)
        ELSE [indices EXCEPT ![lv] = v]

\* explicit_inc<Level>(diff): increment by diff on level lv
RECURSIVE ExplicitInc(_, _, _, _)
ExplicitInc(indices, dm, lv, diff) ==
    LET dim == dm[lv]
        v == ToSize(indices[lv] + diff)
    IN  IF lv = 1 \/ v < dim THEN [indices EXCEPT ![lv] = v]
        ELSE IF v < 2 * dim
        THEN ExplicitInc1([indices EXCEPT ![lv] = v - dim], dm, lv - 1)
        ELSE ExplicitInc([indices EXCEPT ![lv] = v % dim], dm, lv - 1, v \div dim)

\* explicit_dec<Level>(): decrement by 1 on level lv, borrowing from lv - 1
RECURSIVE ExplicitDec1(_, _, _)
ExplicitDec1(indices, dm, lv) ==
    LET dim == dm[lv]
    IN  IF lv > 1
        THEN (IF indices[lv] > 0
              THEN [indices EXCEPT ![lv] = indices[lv] - 1]
              ELSE ExplicitDec1([indices EXCEPT ![lv] = dim - 1], dm, lv - 1))
        ELSE [indices EXCEPT ![lv] = ToSize(indices[lv] - 1)]

\* explicit_dec<Level>(diff): decrement by diff on level lv
RECURSIVE ExplicitDec(_, _, _, _)
ExplicitDec(indices, dm, lv, diff) ==
    LET dim == dm[lv]
        post_sub == ToPtrdiff(ToSize(indices[lv] - diff))
    IN  IF lv = 1 THEN [indices EXCEPT ![lv] = ToSize(post_sub)]
        ELSE IF post_sub >= 0 THEN [indices EXCEPT ![lv] = ToSize(indices[lv] - diff)]
        ELSE IF ToSize(-post_sub) <= dim
        THEN ExplicitDec1([indices EXCEPT ![lv] = ToSize(indices[lv] - (diff - dim))],
                          dm, lv - 1)
        ELSE LET val == ToSize(-post_sub) - 1
                 quot == val \div dim
                 rem == val % dim
             IN  ExplicitDec([indices EXCEPT ![lv] = dim - (rem + 1)], dm, lv - 1, quot)

\* inc(diff) of operator+=: by the sign of diff
IterInc(indices, dm, diff) ==
    IF diff >= 0 THEN ExplicitInc(indices, dm, Len(dm), diff)
    ELSE ExplicitDec(indices, dm, Len(dm), -diff)

\* dec(diff) of operator-=
IterDec(indices, dm, diff) ==
    IF diff >= 0 THEN ExplicitDec(indices, dm, Len(dm), diff)
    ELSE ExplicitInc(indices, dm, Len(dm), -diff)

\* operator++ applied n times
RECURSIVE Increments(_, _, _)
Increments(indices, dm, n) ==
    IF n = 0 THEN indices ELSE Increments(ExplicitInc1(indices, dm, Len(dm)), dm, n - 1)

\* operator-- applied n times
RECURSIVE Decrements(_, _, _)
Decrements(indices, dm, n) ==
    IF n = 0 THEN indices ELSE Decrements(ExplicitDec1(indices, dm, Len(dm)), dm, n - 1)

\* element_begin() of an irregular view: indices all zero
ElementBegin(dm) == [lv \in 1..Len(dm) |-> 0]

(***************************************************************************)
(* Making and resizing arrays.                                              *)
(***************************************************************************)
\* std::vector::resize(n): the elements up to n are kept, new ones are
\* value-initialised
VectorResize(buf, n) == [i \in 1..n |-> IF i <= Len(buf) THEN buf[i] ELSE 0]

\* array::resize(dims) taking the dimensions and leaving the data as it is
ResizeArrayDimsOnly(buf, d) == [dims |-> d, data |-> buf]

\* array::resize(dims): dims_ = dims, then resize(), which is
\* data_.resize(_total_size_impl()); array(dims) is this on empty data
ResizeArray(buf, d) == [dims |-> d, data |-> VectorResize(buf, TotalSize(d))]

\* array(view): dims_ = other.dimensions(), resize(), other.copy_to(data());
\* ub is TRUE when an element outside the buffer of the view would be read
ArrayOfView(d, buf, v) ==
    LET made == ResizeArray(<<>>, Dimensions(d, v))
        sp == CopyPositions(d, v, ViewSize(d, v))
        inb == InBuffer(sp, Len(buf)) /\ Len(sp) = Len(made.data)
    IN  [ub |-> ~inb, dims |-> made.dims,
         data |-> IF inb
                  THEN CopyLoop(made.data, buf, FALSE, sp, [i \in 1..Len(sp) |-> i - 1], 1)
                  ELSE made.data]

(***************************************************************************)
(* Regular iterators.  An element iterator is a pointer, as an element      *)
(* offset into the buffer, and a signed stride; a level iterator is the     *)
(* base pointer of the sub-view it returns and a positive pointer stride.   *)
(***************************************************************************)
\* operator+=(diff) of the element and of the level iterator
RegularAdd(it, diff) == [it EXCEPT !.ptr = it.ptr + diff * it.stride]

\* operator-=(diff) of the element and of the level iterator
RegularSub(it, diff) == [it EXCEPT !.ptr = it.ptr - diff * it.stride]

\* _regular_elem_iter::operator++: *this += stride_
RegularElemInc(it) == RegularAdd(it, it.stride)

\* _regular_elem_iter::operator--: *this -= stride_
RegularElemDec(it) == RegularSub(it, it.stride)

\* regular_view_iter::operator++: (*this) += 1
RegularViewInc(it) == RegularAdd(it, 1)

\* regular_view_iter::operator--: (*this) += 1
RegularViewDec(it) == RegularAdd(it, 1)

\* _regular_elem_iter::operator-(other)
RegularDiff(a, b) == TruncDiv(a.ptr - b.ptr, a.stride)

\* _regular_elem_iter::operator<(other): (ptr_ < other.ptr_) ^ (stride_ > 0)
RegularLess(a, b) == (a.ptr < b.ptr) # (a.stride > 0)

\* _regular_elem_iter::operator>(other): (ptr_ > other.ptr_) ^ (stride_ > 0)
RegularGreater(a, b) == (a.ptr > b.ptr) # (a.stride > 0)

\* regular_view::element_begin
RegularElementBegin(v) == [ptr |-> v.ptr, stride |-> Stride(v)]

\* regular_view::_begin_impl<Level> for Level = 1 on a view of more levels:
\* the pointer stride is the size of the base levels after the first
\* non-scalar one
RegularBegin(d, v) ==
    [ptr |-> v.ptr, stride |-> ProdRange(d, NonScalarTable(v.ix)[1] + 1, Len(d))]

(***************************************************************************)
(* The inputs of the model.                                                 *)
(***************************************************************************)
\* the dimensions of the base arrays
DimsSet ==
    {<<n>> : n \in 1..MaxDim}
    \cup {<<2, MaxDim>>, <<MaxDim, 2>>}
    \cup {<<2, MaxDim, 2>>}

\* the number of operator() calls a run makes on an array of dimensions d
CallBudget(d) == IF Len(d) >= 3 THEN MaxSlices - 1 ELSE MaxSlices

\* integer indices offered on an axis of length n: one out of range on each side
Indices(n) == (-(n + 1))..n

\* the spans offered to the first slicing call on a one-level operand
RichSpans(n) ==
    {AllSpan}
    \cup {SimpleSpan(f, l) : f \in (-n)..(n + 1), l \in (-n)..(n + 1)}
    \cup {RegularSpan(f, l, st) : f \in Indices(n), l \in Indices(n), st \in (-MaxStep)..MaxStep}
    \cup {IrregularSpan(<<i>>) : i \in Indices(n)}
    \cup {IrregularSpan(<<i, j>>) : i \in Indices(n), j \in Indices(n)}
    \cup {IrregularSpanU(<<i>>) : i \in 0..n}

\* the spans offered on each level of a two-level operand and to later calls
LeanSpans(n) ==
    {AllSpan, Reversed}
    \cup {ScalarSpan(i) : i \in {0, 1, -1, n, -(n + 1)}}
    \cup {SimpleSpan(1, 0), SimpleSpan(0, -1)}
    \cup {RegularSpan(0, 0, MaxStep), RegularSpan(-1, 0, -MaxStep)}
    \cup {IrregularSpan(<<-1, 0>>), IrregularSpanU(<<n>>)}

\* the spans offered on each level of a three-level operand
TinySpans ==
    {AllSpan, Reversed, ScalarSpan(0), ScalarSpan(-1), SimpleSpan(1, 0), IrregularSpan(<<-1, 0>>)}

\* the spans offered on a level of length n of an operand with the given
\* number of levels, after nsl calls
LevelSpans(n, levels, nsl) ==
    IF levels = 1 THEN (IF nsl = 0 THEN RichSpans(n) ELSE LeanSpans(n))
    ELSE IF levels = 2 /\ nsl = 0 THEN LeanSpans(n)
    ELSE TinySpans

\* the tuples with one element of S[lv] per level lv
RECURSIVE Tuples(_)
Tuples(S) ==
    IF Len(S) = 1 THEN {<<a>> : a \in S[1]}
    ELSE IF Len(S) = 2 THEN {<<a, b>> : a \in S[1], b \in S[2]}
    ELSE IF Len(S) = 3 THEN {<<a, b, c>> : a \in S[1], b \in S[2], c \in S[3]}
    ELSE {Append(t, a) : t \in Tuples(SubSeq(S, 1, Len(S) - 1)), a \in S[Len(S)]}

\* the span tuples offered to a slicing call on v: one span per level, not
\* all of them integers (that is an element access), or fewer spans than
\* levels, the missing trailing ones being taken as all spans
SpanTuples(d, v, nsl) ==
    LET levels == IndexerTupleDepth(v.ix)
        dm == Dimensions(d, v)
    IN  {t \in Tuples([lv \in 1..levels |-> LevelSpans(dm[lv], levels, nsl)]) :
            \E lv \in 1..levels : t[lv].k # "scalar"}
        \cup (IF levels >= 2 THEN Tuples([lv \in 1..(levels - 1) |-> TinySpans]) ELSE {})

\* the index tuples offered to an element access on v
IndexTuples(d, v) ==
    LET levels == IndexerTupleDepth(v.ix)
        dm == Dimensions(d, v)
    IN  Tuples([lv \in 1..levels |-> IF levels >= 3 THEN {0, -1, dm[lv]} ELSE Indices(dm[lv])])

\* the span tuples offered to build the source view of an assignment
SourceTuples(d) ==
    {t \in Tuples([lv \in 1..Len(d) |-> TinySpans]) : \E lv \in 1..Len(d) : t[lv].k # "scalar"}

\* the dimensions offered to reshape: those of the base arrays and the
\* one-level dimensions of their sizes
ReshapeDims == DimsSet \cup {<<ProdRange(d, 1, Len(d))>> : d \in DimsSet}

\* the part lengths offered to partition an array of dimensions d: a
\* positive one per leading level, the result having at most MaxDepth levels
PartDims(d) ==
    UNION {Tuples([i \in 1..pd |-> 1..MaxDim]) :
              pd \in {n \in 1..Len(d) : Len(d) + n <= MaxDepth}}

\* range(n) reshaped to d: element k of the buffer holds k
RangeBuffer(d) == [i \in 1..ProdRange(d, 1, Len(d)) |-> i - 1]

\* the buffer of the second array, which is only read: distinct values
OtherBuffer(d) ==
    [i \in 1..ProdRange(d, 1, Len(d)) |-> ProdRange(d, 1, Len(d)) + i - 1]

(***************************************************************************)
(* The state machine: a program builds array a = reshape(range(N), dims),   *)
(* slices it, slices the views it gets, reads elements and assigns to the   *)
(* current view.                                                            *)
(***************************************************************************)
VARIABLES dims, data, view, status, nslices, naccesses, hist

vars == <<dims, data, view, status, nslices, naccesses, hist>>

\* hist records the last operation: its operand before the call (pre), the
\* spans or indices given, the source operand and branch of an assignment,
\* the position an element access resolved to and the buffer before the call,
\* with the dimensions before an assignment (predims);
\* of a rearrangement it records the dimensions given (spans), the dimensions
\* and the buffer of the array before the call (predims, predata), and the
\* operation, dimensions and buffer recorded before it (prev, prevdims,
\* prevdata); of an assignment that was staged it records the temporary
\* (temp); of an iterator operation where the iterator stood, the number n
\* given and where the iterator stands after it, or the outcome of comparing
\* it with another one (iter); of a construction the array made (made)
\* no iterator was moved
NoIter == [start |-> <<>>, n |-> 0, result |-> <<>>, other |-> <<>>]

NoHist ==
    [op |-> "init", pre |-> ArrayOperand(1, <<1>>), spans |-> <<>>,
     src |-> ArrayOperand(1, <<1>>), path |-> "none", pos |-> 0, predata |-> <<>>,
     predims |-> <<>>, prev |-> "init", prevdims |-> <<>>, prevdata |-> <<>>,
     temp |-> NoTemp, iter |-> NoIter, made |-> [dims |-> <<>>, data |-> <<>>]]

Init ==
    /\ dims \in DimsSet
    /\ data = RangeBuffer(dims)
    /\ view = ArrayOperand(1, dims)
    /\ status = "ok"
    /\ nslices = 0
    /\ naccesses = 0
    /\ hist = NoHist

\* view = view(spans...): operator() with at least one span that is no integer
Vpart(spans) ==
    /\ status = "ok"
    /\ nslices < CallBudget(dims)
    /\ naccesses = 0
    /\ LET r == GetCollapsedView(dims, view, spans)
       IN  /\ view' = IF r.ok THEN r.view ELSE view
           /\ status' = IF r.ok THEN "ok" ELSE "aborted"
    /\ nslices' = nslices + 1
    /\ hist' = [NoHist EXCEPT !.op = "vpart", !.pre = view, !.spans = spans]
    /\ UNCHANGED <<dims, data, naccesses>>

\* view(i0, i1, ...): operator() with one integer per level, an element access
At(idx) ==
    /\ status = "ok"
    /\ nslices < CallBudget(dims)
    /\ naccesses < MaxAccesses
    /\ LET r == ElemAt(dims, view, idx)
       IN  /\ status' = IF ~r.ok THEN "aborted"
                        ELSE IF r.pos < 0 \/ r.pos >= Len(data) THEN "undefined"
                        ELSE "ok"
           /\ hist' = [NoHist EXCEPT !.op = "at", !.pre = view, !.spans = idx,
                                     !.pos = IF r.ok THEN r.pos ELSE 0]
    /\ naccesses' = naccesses + 1
    /\ UNCHANGED <<dims, data, view, nslices>>

\* the element type of the array a
ElemTypeOfA == "int"

\* the element types an operand of array id is taken with: the second array
\* has elements that are smaller, of the same size or larger
ElemTypes(id) == IF id = 1 THEN {ElemTypeOfA} ELSE {"char", "unsigned", "int64"}

\* view = src, the source being the array a, the second array or a view of
\* one of them, with elements of type src_t: operator= of the array and of
\* the three view classes
Assign(src, src_t) ==
    /\ status = "ok"
    /\ nslices < CallBudget(dims)
    /\ naccesses < MaxAccesses
    /\ LET r == DataCopy(dims, data, IF src.id = 1 THEN data ELSE OtherBuffer(dims), src, view)
       IN  /\ data' = r.buf
           /\ status' = IF ~r.ok THEN "aborted" ELSE IF r.ub THEN "undefined" ELSE "ok"
           /\ hist' = [NoHist EXCEPT !.op = "assign", !.pre = view, !.src = src,
                                     !.path = r.path, !.predata = data, !.predims = dims,
                                     !.temp = IF r.path = "staged"
                                              THEN TempBuffer(dims, src, src_t, ElemTypeOfA)
                                              ELSE NoTemp]
    /\ naccesses' = naccesses + 1
    /\ UNCHANGED <<dims, view, nslices>>

\* view = a, view = b: the source is a whole array
AssignArray(id, src_t) == Assign(ArrayOperand(id, dims), src_t)

\* view = a(spans...), view = b(spans...): the source is a view built by one
\* slicing call
AssignView(id, spans, src_t) ==
    LET r == GetCollapsedView(dims, ArrayOperand(id, dims), spans)
    IN  r.ok /\ Assign(r.view, src_t)

\* a run goes on while no assertion fired, nothing undefined happened and
\* calls are left
Running == status = "ok" /\ nslices < CallBudget(dims) /\ naccesses < MaxAccesses

Slice == Running /\ \E spans \in SpanTuples(dims, view, nslices) : Vpart(spans)

Access == Running /\ \E idx \in IndexTuples(dims, view) : At(idx)

AssignFromArray ==
    Running /\ \E id \in {1, 2} : \E src_t \in ElemTypes(id) : AssignArray(id, src_t)

AssignFromView ==
    Running /\ \E id \in {1, 2} : \E spans \in SourceTuples(dims) :
        \E src_t \in ElemTypes(id) : AssignView(id, spans, src_t)

\* a rearrangement is applied to an array, before any view of it is taken
Rearranging ==
    status = "ok" /\ nslices < MaxSlices /\ naccesses = 0 /\ view.vt = "array"

\* the array a is replaced by the result ret of rearranging it
Rearrange(op, given, ret) ==
    /\ dims' = IF ret.ok THEN ret.dims ELSE dims
    /\ data' = IF ret.ok THEN ret.data ELSE data
    /\ view' = IF ret.ok THEN ArrayOperand(1, ret.dims) ELSE view
    /\ status' = IF ret.ok THEN "ok" ELSE "aborted"
    /\ nslices' = nslices + 1
    /\ hist' = [NoHist EXCEPT !.op = op, !.pre = view, !.spans = given,
                              !.predims = dims, !.predata = data,
                              !.prev = hist.op, !.prevdims = hist.predims,
                              !.prevdata = hist.predata]
    /\ UNCHANGED naccesses

\* a = reshape(a, new_dims)
Reshape(new_dims) == Rearrange("reshape", new_dims, ReshapeArray(data, new_dims))

\* a = flatten(a)
Flatten == Rearranging /\ Rearrange("flatten", <<>>, FlattenArray(data))

\* a = partition(a, part_dims)
Partition(part_dims) ==
    Rearrange("partition", part_dims, PartitionArray(data, dims, part_dims))

Reshaping == Rearranging /\ \E new_dims \in ReshapeDims : Reshape(new_dims)

Partitioning == Rearranging /\ \E part_dims \in PartDims(dims) : Partition(part_dims)

\* it = view.element_begin(), ++it k times, then it += n or it -= n, on an
\* irregular view returned by a slicing call of the array
IrregularIterMove(op, k, n) ==
    /\ LET dm == Dimensions(dims, view)
           start == Increments(ElementBegin(dm), dm, k)
       IN  hist' = [NoHist EXCEPT !.op = op, !.pre = view,
                       !.iter = [start |-> start, n |-> n,
                                 result |-> IF op = "iter_add" THEN IterInc(start, dm, n)
                                            ELSE IterDec(start, dm, n),
                                 other |-> NoIter.other]]
    /\ naccesses' = naccesses + 1
    /\ UNCHANGED <<dims, data, view, status, nslices>>

\* an iterator is taken of a view returned by the first slicing call
Iterating == Running /\ nslices = 1 /\ hist.op = "vpart" /\ ViewSize(dims, view) > 0

IrregularIterAdd ==
    /\ Iterating
    /\ view.vt = "irregular"
    /\ \E k \in 0..ViewSize(dims, view) : \E n \in 0..(ViewSize(dims, view) - k) :
          IrregularIterMove("iter_add", k, n)

IrregularIterSub ==
    /\ Iterating
    /\ view.vt = "irregular"
    /\ \E k \in 0..ViewSize(dims, view) : \E n \in 0..k :
          IrregularIterMove("iter_sub", k, n)

\* an iterator is taken of a non-empty regular view returned by the slicing
\* call of the array
RegularIterating ==
    /\ status = "ok"
    /\ naccesses < MaxAccesses
    /\ nslices = 1
    /\ hist.op = "vpart"
    /\ view.vt = "regular"
    /\ ViewSize(dims, view) > 0

\* records an operation on the iterator start
RegularIterMove(op, start, k, result, other) ==
    /\ hist' = [NoHist EXCEPT !.op = op, !.pre = view,
                   !.iter = [start |-> start, n |-> k, result |-> result, other |-> other]]
    /\ naccesses' = naccesses + 1
    /\ UNCHANGED <<dims, data, view, status, nslices>>

\* it = view.element_begin() + k, then ++it or --it staying in [begin, end]
RegularElemStep ==
    /\ RegularIterating
    /\ \E k \in 0..ViewSize(dims, view) :
          LET it == RegularAdd(RegularElementBegin(view), k)
          IN  \/ k < ViewSize(dims, view)
                 /\ RegularIterMove("elem_inc", it, k, RegularElemInc(it), NoIter.other)
              \/ k > 0
                 /\ RegularIterMove("elem_dec", it, k, RegularElemDec(it), NoIter.other)

\* it = view.begin<1>() + k on a view of more than one level, then ++it or
\* --it staying in [begin, end]
RegularViewStep ==
    /\ RegularIterating
    /\ IndexerTupleDepth(view.ix) > 1
    /\ \E k \in 0..Dimension(dims, view, 1) :
          LET it == RegularAdd(RegularBegin(dims, view), k)
          IN  \/ k < Dimension(dims, view, 1)
                 /\ RegularIterMove("view_inc", it, k, RegularViewInc(it), NoIter.other)
              \/ k > 0
                 /\ RegularIterMove("view_dec", it, k, RegularViewDec(it), NoIter.other)

\* a = view.element_begin() + i and b = view.element_begin() + j are compared
\* and subtracted
RegularElemCompare ==
    /\ RegularIterating
    /\ \E i \in 0..ViewSize(dims, view) : \E j \in 0..ViewSize(dims, view) :
          LET a == RegularAdd(RegularElementBegin(view), i)
              b == RegularAdd(RegularElementBegin(view), j)
          IN  RegularIterMove("elem_cmp", a, i,
                              [diff |-> RegularDiff(a, b), less |-> RegularLess(a, b),
                               greater |-> RegularGreater(a, b),
                               rdiff |-> RegularDiff(b, a)],
                              [it |-> b, n |-> j])

\* array c(d) next to the array a, and array c(view): another array is
\* made, by its dimensions or from the view as it stands
Constructing ==
    /\ Running
    /\ \/ \E d \in DimsSet :
             /\ nslices = 0
             /\ hist' = [NoHist EXCEPT !.op = "construct", !.pre = view,
                                       !.made = ResizeArray(<<>>, d)]
             /\ status' = "ok"
       \/ LET made == ArrayOfView(dims, data, view)
          IN  /\ hist' = [NoHist EXCEPT !.op = "materialise", !.pre = view,
                                        !.made = [dims |-> made.dims, data |-> made.data]]
              /\ status' = IF made.ub THEN "undefined" ELSE "ok"
    /\ naccesses' = naccesses + 1
    /\ UNCHANGED <<dims, data, view, nslices>>

\* a.resize(d) on the array, d of as many levels as the array has
Resizing ==
    /\ Running
    /\ view.vt = "array"
    /\ \E d \in {e \in DimsSet : Len(e) = Len(dims)} :
          LET r == ResizeArray(data, d)
          IN  /\ dims' = r.dims
              /\ data' = r.data
              /\ view' = ArrayOperand(1, r.dims)
              /\ hist' = [NoHist EXCEPT !.op = "resize", !.pre = view, !.spans = d,
                                        !.predims = dims, !.predata = data]
    /\ naccesses' = naccesses + 1
    /\ UNCHANGED <<status, nslices>>

\* view(i0, i1, ...) = -1: an element is written through operator()
Writing ==
    /\ Running
    /\ \E idx \in IndexTuples(dims, view) :
          LET r == ElemAt(dims, view, idx)
              inside == r.ok /\ 0 <= r.pos /\ r.pos < Len(data)
          IN  /\ status' = IF ~r.ok THEN "aborted" ELSE IF ~inside THEN "undefined" ELSE "ok"
              /\ data' = IF inside THEN [data EXCEPT ![r.pos + 1] = -1] ELSE data
              /\ hist' = [NoHist EXCEPT !.op = "write", !.pre = view, !.spans = idx,
                                        !.pos = IF r.ok THEN r.pos ELSE 0,
                                        !.predims = dims, !.predata = data]
    /\ naccesses' = naccesses + 1
    /\ UNCHANGED <<dims, view, nslices>>

Next ==
    \/ IrregularIterAdd
    \/ IrregularIterSub
    \/ RegularElemStep
    \/ RegularViewStep
    \/ RegularElemCompare
    \/ Constructing
    \/ Resizing
    \/ Writing
    \/ Slice
    \/ Access
    \/ AssignFromArray
    \/ AssignFromView
    \/ Reshaping
    \/ Flatten
    \/ Partitioning

Spec == Init /\ [][Next]_vars

TypeOK ==
    /\ dims \in Seq(1..SizeMod)
    /\ Len(dims) \in 1..MaxDepth
    /\ CheckSize(data, dims)
    /\ status \in {"ok", "aborted", "undefined"}
    /\ nslices \in 0..MaxSlices
    /\ naccesses \in 0..MaxAccesses

(***************************************************************************)
(* Element order of an operand.                                             *)
(***************************************************************************)
\* the index tuple of the k-th element of an operand of dimensions dm in
\* row-major order, k counted from 0
RowMajorTuple(dm, k) ==
    [lv \in 1..Len(dm) |-> (k \div ProdRange(dm, lv + 1, Len(dm))) % dm[lv]]

\* the buffer positions of the elements of an operand in row-major order,
\* each through at(i0, i1, ...)
ElementPositions(d, v) ==
    [i \in 1..ViewSize(d, v) |-> ElemAt(d, v, RowMajorTuple(Dimensions(d, v), i - 1)).pos]

\* no position occurs twice in a walk
Distinct(ps) == \A i \in 1..Len(ps) : \A j \in 1..Len(ps) : ps[i] = ps[j] => i = j

(***************************************************************************)
(* C1.  Assignment between operands.                                        *)
(***************************************************************************)
\* the buffer the source of the last assignment was read from, as it was
\* before the assignment began
SourceBefore == IF hist.src.id = 1 THEN hist.predata ELSE OtherBuffer(dims)

\* C1: after an assignment dst = src between operands of equal dimensions
\* that ran to its end, every destination element holds the value the
\* corresponding source element held before the assignment began (the
\* destination elements being pairwise distinct).
C1_AssignCopiesSourceBefore ==
    (hist.op = "assign" /\ status = "ok" /\ Distinct(ElementPositions(dims, hist.pre)))
    => LET sp == ElementPositions(dims, hist.src)
           dp == ElementPositions(dims, hist.pre)
       IN  \A i \in 1..Len(dp) : data[dp[i] + 1] = SourceBefore[sp[i] + 1]

(***************************************************************************)
(* C2.  Chains of slicing calls.                                            *)
(***************************************************************************)
\* the view the spans of the last slicing call give on the materialized
\* result of its operand: a fresh array of the operand's dimensions
OnMaterialized ==
    LET md == Dimensions(dims, hist.pre)
    IN  GetCollapsedView(md, ArrayOperand(2, md), hist.spans)

\* the positions the last slicing call selects in the materialized result of
\* its operand, in the element order of the new view
SelectedInMaterialized == ElementPositions(Dimensions(dims, hist.pre), OnMaterialized.view)

\* C2: applying spans to a view addresses the same elements of the base
\* array, in the same order, as applying them to the materialized result of
\* the view: element i of the new view lies where the old view has the i-th
\* element the spans select (the spans being valid on the old view).
C2_ChainComposes ==
    (hist.op = "vpart" /\ status = "ok")
    => /\ OnMaterialized.ok
       /\ InBuffer(SelectedInMaterialized, ViewSize(dims, hist.pre))
          => LET old == ElementPositions(dims, hist.pre)
                 new == ElementPositions(dims, view)
             IN  /\ Len(new) = Len(SelectedInMaterialized)
                 /\ \A i \in 1..Len(new) : new[i] = old[SelectedInMaterialized[i] + 1]

\* a regular view of step 2 is reversed: its elements at base positions 0, 2
\* are addressed in the order 2, 0
C2_Witness ==
    /\ hist.op = "vpart" /\ status = "ok" /\ dims = <<3>>
    /\ hist.pre.vt = "regular" /\ hist.pre.ix[1].step = 2
    /\ hist.spans = <<Reversed>>
    /\ ElementPositions(dims, hist.pre) = <<0, 2>>
    /\ ElementPositions(dims, view) = <<2, 0>>

(***************************************************************************)
(* C3.  The kind of a view.                                                 *)
(***************************************************************************)
\* the kinds of the indexers of an indexer tuple
Kinds(ixs) == [i \in 1..Len(ixs) |-> ixs[i].k]

\* the transition table of the fold as the specification lists it: <<state, indexer
\* kind, new state>>
FoldTable ==
    {<<"scalar", "scalar", "scalar">>, <<"scalar", "all", "simple">>,
     <<"scalar", "simple", "simple">>, <<"scalar", "regular", "regular">>,
     <<"scalar", "irregular", "irregular">>,
     <<"simple", "scalar", "regular">>, <<"simple", "all", "simple">>,
     <<"simple", "simple", "irregular">>, <<"simple", "regular", "irregular">>,
     <<"simple", "irregular", "irregular">>,
     <<"regular", "scalar", "regular">>, <<"regular", "all", "irregular">>,
     <<"regular", "simple", "irregular">>, <<"regular", "regular", "irregular">>,
     <<"regular", "irregular", "irregular">>}
    \cup {<<"irregular", k, "irregular">> : k \in {"scalar", "all", "simple", "regular", "irregular"}}

\* the states of the fold of the table over a tuple of kinds: entry i + 1 is
\* the state after i indexers
FoldStates(ks) ==
    LET st[i \in 0..Len(ks)] ==
            IF i = 0 THEN "scalar"
            ELSE CHOOSE s \in {"scalar", "simple", "regular", "irregular"} :
                    <<st[i - 1], ks[i], s>> \in FoldTable
    IN  st

\* C3: the kind of every view is the result of the left-to-right fold of the
\* transition table over its indexer tuple, from state Scalar; (All, Scalar,
\* All) is Irregular, (Scalar, All, All) Simple, (All, All, Scalar) Regular.
C3_ViewKindIsFold ==
    view.vt # "array"
    => /\ view.vt = FoldStates(Kinds(view.ix))[Len(view.ix)]
       /\ Kinds(view.ix) = <<"all", "scalar", "all">> => view.vt = "irregular"
       /\ Kinds(view.ix) = <<"scalar", "all", "all">> => view.vt = "simple"
       /\ Kinds(view.ix) = <<"all", "all", "scalar">> => view.vt = "regular"

\* a(All, 0, All) on a three-level array came out as an irregular view
C3_Witness ==
    /\ hist.op = "vpart" /\ status = "ok"
    /\ Kinds(view.ix) = <<"all", "scalar", "all">>
    /\ view.vt = "irregular"

(***************************************************************************)
(* C5.  The kind of a collapsed indexer.                                    *)
(***************************************************************************)
\* the decision table as the specification lists it, for an indexer kind K and a span
\* kind S
DecisionTable(K, S) ==
    CASE S = "scalar" -> "scalar"
      [] S = "all" -> K
      [] S = "simple" -> (CASE K \in {"all", "simple"} -> "simple"
                            [] K = "regular" -> "regular"
                            [] K = "irregular" -> "irregular")
      [] S = "regular" -> (CASE K \in {"all", "simple", "regular"} -> "regular"
                             [] K = "irregular" -> "irregular")
      [] S = "irregular" -> "irregular"

\* the span the last slicing call applied to base level ic of its operand
SpanOfLevel(ic) ==
    TakeIthSpan(hist.spans, Cardinality({j \in 1..ic : hist.pre.ix[j].k # "scalar"}))

\* C5: a slicing call leaves on every level whose indexer was not scalar the
\* indexer kind the decision table gives for the old kind and the span kind.
C5_CollapsedKindIsTable ==
    (hist.op = "vpart" /\ status = "ok")
    => \A ic \in 1..Len(dims) :
          hist.pre.ix[ic].k # "scalar"
          => view.ix[ic].k = DecisionTable(hist.pre.ix[ic].k, SpanOfLevel(ic).k)

\* a simple span on a regular indexer gave a regular indexer with the step
\* inherited
C5_Witness ==
    /\ hist.op = "vpart" /\ status = "ok" /\ Len(dims) = 1
    /\ hist.pre.ix[1].k = "regular" /\ hist.pre.ix[1].step = -1
    /\ hist.spans[1].k = "simple"
    /\ view.ix[1].k = "regular" /\ view.ix[1].step = -1

(***************************************************************************)
(* C6.  The rank of a view.                                                 *)
(***************************************************************************)
\* the number of integers among the specs of the last slicing call
IntegerSpecs == Cardinality({i \in 1..Len(hist.spans) : hist.spans[i].k = "scalar"})

\* C6: a view obtained from an operand of rank d with specs of which k are
\* integers has rank d - k, the number of its non-scalar indexers; specs that
\* are missing at the end count as All.
C6_RankDropsPerInteger ==
    (hist.op = "vpart" /\ status = "ok")
    => /\ IndexerTupleDepth(view.ix) = IndexerTupleDepth(hist.pre.ix) - IntegerSpecs
       /\ IndexerTupleDepth(view.ix) = Cardinality({i \in 1..Len(view.ix) : view.ix[i].k # "scalar"})
       /\ Len(Dimensions(dims, view)) = IndexerTupleDepth(view.ix)

\* a(0) on a three-level array, two specs missing: a view of rank two
C6_Witness ==
    /\ hist.op = "vpart" /\ status = "ok" /\ Len(dims) = 3
    /\ hist.pre.vt = "array"
    /\ Len(hist.spans) = 2 /\ hist.spans[1].k = "scalar" /\ hist.spans[2].k = "scalar"
    /\ IndexerTupleDepth(view.ix) = 1

(***************************************************************************)
(* C4.  Simple and regular views are one run of a single stride.            *)
(***************************************************************************)
\* C4: in a simple or regular view the k-th element in row-major order,
\* reached through at(i0, i1, ...), lies at base_ptr + k * stride(), where
\* the element iterator looks for it; the stride of a simple view is 1.
C4_SingleStride ==
    (status = "ok" /\ view.vt \in {"simple", "regular"})
    => /\ \A k \in 0..(ViewSize(dims, view) - 1) :
             /\ ElementPositions(dims, view)[k + 1] = view.ptr + k * Stride(view)
             /\ CopyPositions(dims, view, ViewSize(dims, view))[k + 1] = view.ptr + k * Stride(view)
       /\ view.vt = "simple" => Stride(view) = 1

\* a regular view of two levels with a negative stride that is no step of a
\* span: a(Reversed, 0) on an array of dimensions {3, 2}
C4_Witness ==
    /\ status = "ok" /\ view.vt = "regular" /\ dims = <<3, 2>>
    /\ Kinds(view.ix) = <<"regular", "scalar">>
    /\ Stride(view) = -2
    /\ ElementPositions(dims, view) = <<4, 2, 0>>

(***************************************************************************)
(* C7.  Row-major layout of a reshaped range.                               *)
(***************************************************************************)
\* C7: in a = reshape(range(R * C), {R, C}) the element a(i, j) is i * C + j
\* for 0 <= i < R and 0 <= j < C, and a(All, j) is a view of rank 1 and size
\* R whose k-th element is k * C + j (nothing having been assigned to a).
C7_RowMajorRange ==
    (Len(dims) = 2 /\ data = RangeBuffer(dims))
    => /\ (hist.op = "at" /\ hist.pre.vt = "array"
           /\ hist.spans[1] \in 0..(dims[1] - 1) /\ hist.spans[2] \in 0..(dims[2] - 1))
          => /\ status = "ok"
             /\ data[hist.pos + 1] = hist.spans[1] * dims[2] + hist.spans[2]
       /\ (hist.op = "vpart" /\ hist.pre.vt = "array" /\ Len(hist.spans) = 2
           /\ hist.spans[1] = AllSpan /\ hist.spans[2].k = "scalar"
           /\ hist.spans[2].first \in 0..(dims[2] - 1))
          => /\ status = "ok"
             /\ Dimensions(dims, view) = <<dims[1]>>
             /\ \A k \in 0..(dims[1] - 1) :
                   data[ElementPositions(dims, view)[k + 1] + 1] = k * dims[2] + hist.spans[2].first
       /\ (hist.op = "at" /\ Kinds(hist.pre.ix) = <<"all", "scalar">>
           /\ hist.pre.ptr \in 0..(dims[2] - 1)
           /\ hist.spans[1] \in 0..(dims[1] - 1))
          => /\ status = "ok"
             /\ data[hist.pos + 1] = hist.spans[1] * dims[2] + hist.pre.ptr

\* a(1, 2) == 5 was read from reshape(range(6), {2, 3})
C7_Witness ==
    /\ dims = <<2, 3>> /\ hist.op = "at" /\ hist.pre.vt = "array" /\ status = "ok"
    /\ hist.spans = <<1, 2>>
    /\ data[hist.pos + 1] = 5

(***************************************************************************)
(* C8.  Negative indices.                                                   *)
(***************************************************************************)
\* the index a negative index i with -n <= i < 0 stands for on an axis of
\* length n
Wrapped(i, n) == IF -n <= i /\ i < 0 THEN i + n ELSE i

\* a negative last written out, but for -n: that one stands for 0, and a last
\* of 0 given as such stands for n
WrappedLast(i, n) == IF -n < i /\ i < 0 THEN i + n ELSE i

\* a scalar, simple or positive-step regular span with its negative indices
\* written out; the bounds of a negative-step span follow the mirrored rules
WrittenOut(sp, n) ==
    CASE sp.k = "scalar" -> ScalarSpan(Wrapped(sp.first, n))
      [] sp.k = "simple" -> SimpleSpan(Wrapped(sp.first, n), WrappedLast(sp.last, n))
      [] sp.k = "regular" /\ sp.step > 0 ->
            RegularSpan(Wrapped(sp.first, n), WrappedLast(sp.last, n), sp.step)
      [] OTHER -> sp

\* the specs of the last call with every negative index written out
SpecsWrittenOut ==
    LET dm == Dimensions(dims, hist.pre)
    IN  [i \in 1..Len(hist.spans) |->
            IF hist.op = "at" THEN Wrapped(hist.spans[i], dm[i])
            ELSE WrittenOut(hist.spans[i], dm[i])]

\* C8: a negative first, last or integer index i with -n <= i < 0 stands for
\* i + n, each on its own: a call gives the same result as the call with the
\* negative indices written out, and a(span(i, j)) on an array selects the
\* positions from the written-out first up to the written-out last.
C8_NegativeIndexWraps ==
    /\ (hist.op = "vpart" /\ SpecsWrittenOut # hist.spans)
       => LET r == GetCollapsedView(dims, hist.pre, SpecsWrittenOut)
          IN  /\ r.ok = (status = "ok")
              /\ status = "ok" => view = r.view
    /\ (hist.op = "at" /\ SpecsWrittenOut # hist.spans)
       => LET r == ElemAt(dims, hist.pre, SpecsWrittenOut)
          IN  /\ r.ok = (status # "aborted")
              /\ r.ok => hist.pos = r.pos
    /\ (hist.op = "vpart" /\ hist.pre.vt = "array" /\ Len(dims) = 1
        /\ hist.spans[1].k = "simple"
        /\ hist.spans[1].first \in (-dims[1])..(-1) /\ hist.spans[1].last \in (-dims[1])..(-1)
        /\ hist.spans[1].first <= hist.spans[1].last)
       => /\ status = "ok"
          /\ ElementPositions(dims, view) =
                [i \in 1..(hist.spans[1].last - hist.spans[1].first) |->
                    hist.spans[1].first + dims[1] + i - 1]

\* a(span(-3, -1)) on an array of length 3 selected the positions 0, 1
C8_Witness ==
    /\ hist.op = "vpart" /\ status = "ok" /\ dims = <<3>> /\ hist.pre.vt = "array"
    /\ hist.spans = <<SimpleSpan(-3, -1)>>
    /\ ElementPositions(dims, view) = <<0, 1>>

(***************************************************************************)
(* C9, C10.  The elements a regular span selects.                           *)
(***************************************************************************)
\* the least integer that is not below a / b, for a >= 0 and b > 0
Ceiling(a, b) == (a + b - 1) \div b

\* the level of the new view that spec i of the last slicing call gave
LevelOfSpec(i) == i - Cardinality({j \in 1..(i - 1) : hist.spans[j].k = "scalar"})

\* C9: a regular span with a positive step whose resolved bounds satisfy
\* 0 <= first <= last <= n gives an axis of size ceil((last - first) / step),
\* which is 0 when first = last.
C9_RegularSizeIsCeiling ==
    (hist.op = "vpart" /\ status = "ok")
    => \A i \in 1..Len(hist.spans) :
          LET sp == hist.spans[i]
              n == Dimensions(dims, hist.pre)[i]
              first == RegularFirst(sp, n).val
              last == RegularLast(sp, n).val
          IN  (sp.k = "regular" /\ sp.step > 0 /\ 0 <= first /\ first <= last /\ last <= n)
              => Dimensions(dims, view)[LevelOfSpec(i)] = Ceiling(last - first, sp.step)

\* C10: on an operand of one level of length n a regular span with a negative
\* step has n added to first when first + 1 <= 0 and to last when
\* last + 1 < 0, and selects first, first + step, ... down to but excluding
\* last (for -1 <= last <= first and 0 <= first < n); Reversed selects all n
\* elements from the last to the first.
C10_NegativeStepSelection ==
    (hist.op = "vpart" /\ status = "ok" /\ Len(hist.spans) = 1
     /\ IndexerTupleDepth(hist.pre.ix) = 1
     /\ hist.spans[1].k = "regular" /\ hist.spans[1].step < 0)
    => LET sp == hist.spans[1]
           n == Dimensions(dims, hist.pre)[1]
           first == IF sp.first + 1 <= 0 THEN sp.first + n ELSE sp.first
           last == IF sp.last + 1 < 0 THEN sp.last + n ELSE sp.last
           count == Ceiling(first - last, -sp.step)
           old == ElementPositions(dims, hist.pre)
       IN  /\ (-1 <= last /\ last <= first /\ 0 <= first /\ first < n)
              => ElementPositions(dims, view) =
                    [i \in 1..count |-> old[first + (i - 1) * sp.step + 1]]
           /\ sp = Reversed
              => ElementPositions(dims, view) = [i \in 1..n |-> old[n - i + 1]]

(***************************************************************************)
(* C11. A regular span with step 0.                                         *)
(***************************************************************************)
\* some span given to the last slicing call is a regular span of step 0
ZeroStepGiven ==
    /\ hist.op = "vpart"
    /\ \E i \in 1..Len(hist.spans) : hist.spans[i].k = "regular" /\ hist.spans[i].step = 0

\* C11: a slicing call given a regular span whose step is 0 fails in the
\* checked build: an assertion fires and no view is produced, the operand is
\* left as it was
C11_ZeroStepFails ==
    ZeroStepGiven => status = "aborted" /\ view = hist.pre

\* a slicing call on a one-level array with a regular span of step 0 whose
\* bounds are in range has failed
C11_Witness ==
    /\ ZeroStepGiven
    /\ Len(dims) = 1
    /\ hist.pre = ArrayOperand(1, dims)
    /\ hist.spans[1].first = 0
    /\ hist.spans[1].last = dims[1]
    /\ status = "aborted"

(***************************************************************************)
(* C12. Irregular spans.                                                    *)
(***************************************************************************)
\* an index of an index list resolved on an axis of length n
Resolved(i, n) == IF i < 0 THEN i + n ELSE i

\* the levels of the last slicing call that were given an irregular span
IrregularLevels ==
    {i \in 1..Len(hist.spans) : hist.op = "vpart" /\ hist.spans[i].k = "irregular"}

\* some index of an irregular span of the last slicing call resolves to a
\* value outside [0, n)
IrregularOutOfRange ==
    LET dm == Dimensions(dims, hist.pre)
    IN  \E i \in IrregularLevels : \E j \in 1..Len(hist.spans[i].list) :
            Resolved(hist.spans[i].list[j], dm[i]) \notin 0..(dm[i] - 1)

\* C12: every index of an irregular span is resolved on its own, a negative
\* i standing for i + n; an index that resolves outside [0, n) makes the call
\* fail with a bounds error, whatever the integer type of the list and the
\* kind of the indexer; otherwise the axis of the result lists the resolved
\* positions of the operand in the given order.
C12_IrregularResolves ==
    /\ IrregularOutOfRange => status = "aborted"
    /\ (status = "ok" /\ IrregularLevels = {1} /\ IndexerTupleDepth(hist.pre.ix) = 1) =>
          LET n == Dimensions(dims, hist.pre)[1]
              before == ElementPositions(dims, hist.pre)
              list == hist.spans[1].list
          IN  ElementPositions(dims, view)
                  = [j \in 1..Len(list) |-> before[Resolved(list[j], n) + 1]]

(***************************************************************************)
(* C13. span(j).                                                            *)
(***************************************************************************)
\* the last call applied span(j), which is the simple span of first 0 and
\* last j, with 0 <= j <= n to a one-level operand of length n
SpanJApplied ==
    /\ hist.op = "vpart"
    /\ IndexerTupleDepth(hist.pre.ix) = 1
    /\ hist.spans[1].k = "simple"
    /\ hist.spans[1].first = 0
    /\ hist.spans[1].last \in 0..Dimensions(dims, hist.pre)[1]

\* the first m elements of the operand of the last call
PrefixOfOperand(m) == SubSeq(ElementPositions(dims, hist.pre), 1, m)

\* C13 as the specification states it: span(j) selects exactly the positions
\* 0, 1, ..., j-1 of the axis, for every 0 <= j <= n.
C13_SpanJSelectsPrefix ==
    SpanJApplied =>
        /\ status = "ok"
        /\ ElementPositions(dims, view) = PrefixOfOperand(hist.spans[1].last)

\* C13: span(j) selects exactly the positions 0, 1, ..., j-1 of the axis for
\* every 1 <= j <= n; span(0) selects all n positions, a last of 0 denoting
\* the index following the last position.
C13_SpanJSelectsPrefixOrAll ==
    SpanJApplied =>
        /\ status = "ok"
        /\ ElementPositions(dims, view)
              = PrefixOfOperand(IF hist.spans[1].last = 0
                                THEN Dimensions(dims, hist.pre)[1]
                                ELSE hist.spans[1].last)

\* span(0) applied to a one-level array of MaxDim elements gave all of them
C13_Witness ==
    /\ SpanJApplied
    /\ hist.spans[1].last = 0
    /\ hist.pre = ArrayOperand(1, <<MaxDim>>)
    /\ status = "ok"
    /\ ViewSize(dims, view) = MaxDim

(***************************************************************************)
(* C14. Integer indices out of bounds.                                      *)
(***************************************************************************)
\* the levels of the last call that were given an integer index
IntegerLevels ==
    {i \in 1..Len(hist.spans) :
        \/ hist.op = "at"
        \/ hist.op = "vpart" /\ hist.spans[i].k = "scalar"}

\* the integer given on level i of the last call
IntegerGiven(i) == IF hist.op = "at" THEN hist.spans[i] ELSE hist.spans[i].first

\* some integer index i of the last call has i >= n or i < -n on its axis
IntegerOutOfBounds ==
    LET dm == Dimensions(dims, hist.pre)
    IN  \E i \in IntegerLevels : IntegerGiven(i) >= dm[i] \/ IntegerGiven(i) < -dm[i]

\* the last call was given integers and all spans only
OnlyIntegersAndAll ==
    \A i \in 1..Len(hist.spans) : i \in IntegerLevels \/ hist.spans[i].k = "all"

\* C14: with assertions enabled, an element access or a slicing call given an
\* integer index i on an axis of length n fails with an out-of-bounds error
\* whenever i >= n or i < -n, and leaves the operand as it was; when every
\* integer has -n <= i < n, an element access signals no error, and neither
\* does a slicing call whose other spans are all spans.
C14_IntegerIndexBounds ==
    /\ IntegerOutOfBounds => status = "aborted" /\ view = hist.pre
    /\ (hist.op \in {"at", "vpart"} /\ OnlyIntegersAndAll /\ ~IntegerOutOfBounds)
          => status # "aborted"

\* a(MaxDim, 0) on an array of MaxDim rows has failed
C14_Witness ==
    /\ hist.op = "at"
    /\ hist.pre = ArrayOperand(1, <<MaxDim, 2>>)
    /\ hist.spans = <<MaxDim, 0>>
    /\ status = "aborted"

(***************************************************************************)
(* C15. Assignment between views of the same array.                         *)
(***************************************************************************)
\* the set of buffer positions an operand addresses
PositionSet(v) == {ElementPositions(dims, v)[i] : i \in 1..ViewSize(dims, v)}

\* the last operation assigned a simple or regular view to a simple or
\* regular view with the same identity pointer, their dimensions being equal
SameArrayViewsAssigned ==
    /\ hist.op = "assign"
    /\ status # "aborted"
    /\ hist.src.id = hist.pre.id
    /\ hist.src.vt \in {"simple", "regular"}
    /\ hist.pre.vt \in {"simple", "regular"}

\* C15: between simple or regular views of the same array data_copy copies
\* directly only if the source and the destination address disjoint sets of
\* buffer positions; when they share a position the copy is staged through a
\* temporary, whatever the sizes, offsets and strides.
C15_DirectOnlyIfDisjoint ==
    (SameArrayViewsAssigned /\ PositionSet(hist.src) \cap PositionSet(hist.pre) # {})
        => hist.path = "staged"

(***************************************************************************)
(* C16. Assignment between operands of different arrays.                    *)
(***************************************************************************)
\* the last operation assigned an operand of another array, their dimensions
\* being equal
OtherArrayAssigned ==
    /\ hist.op = "assign"
    /\ status # "aborted"
    /\ hist.src.id # hist.pre.id

\* C16 as the specification states it: operands with different identity
\* pointers are copied directly, without a temporary, for every combination
\* of operand kinds.
C16_DifferentArraysDirect ==
    OtherArrayAssigned => hist.path = "direct"

\* C16: operands with different identity pointers are copied directly,
\* without a temporary, for every combination of operand kinds but one: an
\* irregular view assigned to an irregular view is staged through a
\* temporary.  Either way the destination elements, when pairwise distinct,
\* end up holding the source elements.
C16_DifferentArraysDirectButIrregular ==
    OtherArrayAssigned =>
        /\ hist.path = IF hist.src.vt = "irregular" /\ hist.pre.vt = "irregular"
                       THEN "staged" ELSE "direct"
        /\ (status = "ok" /\ Distinct(ElementPositions(dims, hist.pre))) =>
              LET sp == ElementPositions(dims, hist.src)
                  dp == ElementPositions(dims, hist.pre)
              IN  \A i \in 1..Len(dp) : data[dp[i] + 1] = OtherBuffer(dims)[sp[i] + 1]

\* an irregular view of the second array was assigned to an irregular view
\* of the first through a temporary
C16_Witness ==
    /\ OtherArrayAssigned
    /\ hist.src.vt = "irregular"
    /\ hist.pre.vt = "irregular"
    /\ hist.path = "staged"
    /\ status = "ok"
    /\ data # hist.predata

(***************************************************************************)
(* C17. flatten(reshape(a, dims)).                                          *)
(***************************************************************************)
\* the last two operations were b = reshape(a, dims) and flatten(b), both
\* returning an array
FlattenedReshaped == hist.op = "flatten" /\ hist.prev = "reshape" /\ status = "ok"

\* the k-th element, k counted from 0, of the array a that was reshaped, in
\* row-major order of its index tuples
ElementOfReshaped(k) ==
    LET a == ArrayOperand(1, hist.prevdims)
    IN  hist.prevdata[ElemAt(hist.prevdims, a, RowMajorTuple(hist.prevdims, k)).pos + 1]

\* C17: for an array a of any rank and dims with product(dims) = a.size(),
\* flatten(reshape(a, dims)) is a one-level array of a.size() elements whose
\* k-th element is the k-th element of a in row-major order, for all k.
C17_FlattenReshapeKeepsOrder ==
    FlattenedReshaped =>
        /\ Len(dims) = 1
        /\ dims[1] = ProdRange(hist.prevdims, 1, Len(hist.prevdims))
        /\ view = ArrayOperand(1, dims)
        /\ \A k \in 0..(dims[1] - 1) :
              /\ ElemAt(dims, view, <<k>>).ok
              /\ data[ElemAt(dims, view, <<k>>).pos + 1] = ElementOfReshaped(k)

\* a two-level array was reshaped to its transposed dimensions and flattened
C17_Witness ==
    /\ FlattenedReshaped
    /\ hist.prevdims = <<2, MaxDim>>
    /\ hist.predims = <<MaxDim, 2>>
    /\ dims = <<2 * MaxDim>>

(***************************************************************************)
(* C18. reshape and the size of the result.                                 *)
(***************************************************************************)
\* C18: reshape(src, dims) with product(dims) # src.size() is rejected by an
\* assertion and returns no array, the source staying as it was; every array
\* it returns has size() = product(dims) = src.size().  (_total_size_impl
\* multiplies in size_t; the dimensions offered keep the product below
\* 2^SizeBits, so that it is the product of the integers.)
C18_ReshapeRequiresSize ==
    hist.op = "reshape" =>
        LET product == ProdRange(hist.spans, 1, Len(hist.spans))
            src_size == Len(hist.predata)
        IN  /\ product # src_size =>
                  status = "aborted" /\ dims = hist.predims /\ data = hist.predata
            /\ status = "ok" =>
                  /\ dims = hist.spans
                  /\ Len(data) = product
                  /\ product = src_size

\* a reshape of a two-level array to dimensions of another product was
\* rejected
C18_Witness ==
    /\ hist.op = "reshape"
    /\ hist.predims = <<2, MaxDim>>
    /\ hist.spans = <<2, MaxDim, 2>>
    /\ status = "aborted"

(***************************************************************************)
(* C19. partition and divisibility.                                         *)
(***************************************************************************)
\* every leading axis of the array given to the last partition is divided
\* exactly by its part length
DividesExactly ==
    \A i \in 1..Len(hist.spans) :
        \E q \in 0..hist.predims[i] : q * hist.spans[i] = hist.predims[i]

\* C19: partition(src, part_dims), the part lengths being positive, fails
\* with an assertion whenever some leading axis i has a length dims[i] that
\* part_dims[i] does not divide exactly, the source staying as it was; it
\* returns a result only when
\* every leading axis divides exactly, and then it does return one: each
\* leading axis split into the pair (dims[i] / part_dims[i], part_dims[i])
\* over the same data.
C19_PartitionRequiresDivisibility ==
    hist.op = "partition" =>
        /\ ~DividesExactly =>
              status = "aborted" /\ dims = hist.predims /\ data = hist.predata
        /\ DividesExactly =>
              /\ status = "ok"
              /\ data = hist.predata
              /\ Len(dims) = Len(hist.predims) + Len(hist.spans)
              /\ \A i \in 1..Len(hist.spans) :
                    dims[2 * i] = hist.spans[i] /\ dims[2 * i - 1] * dims[2 * i] = hist.predims[i]
              /\ \A i \in (Len(hist.spans) + 1)..Len(hist.predims) :
                    dims[i + Len(hist.spans)] = hist.predims[i]

\* a two-level array was given part lengths of which the second does not
\* divide its axis, and the call failed
C19_Witness ==
    /\ hist.op = "partition"
    /\ hist.predims = <<2, MaxDim>>
    /\ hist.spans = <<1, 2>>
    /\ status = "aborted"

(***************************************************************************)
(* C20. Assignment between operands of different dimensions.                *)
(***************************************************************************)
\* the source and the destination of the last assignment differ in rank or
\* in the length of some axis
DimensionsDiffer ==
    LET sd == Dimensions(dims, hist.src)
        dd == Dimensions(dims, hist.pre)
    IN  /\ hist.op = "assign"
        /\ \/ Len(sd) # Len(dd)
           \/ \E i \in 1..Len(sd) : i <= Len(dd) /\ sd[i] # dd[i]

RegularOnRegular ==
    /\ hist.op = "vpart"
    /\ status = "ok"
    /\ Len(dims) = 1
    /\ hist.pre.ix[1].k \in {"all", "simple", "regular"}
    /\ hist.spans[1].k = "regular"

\* the buffer position, relative to the base pointer, that an indexer gives
\* to its position i
BasePosition(ix, i) == ToPtrdiff(IndexerGet(ix, ToSize(i)))

\* C21: a regular span of resolved first f and step s collapsed onto an all,
\* simple or regular indexer of step t (1 for all and simple) gives a regular
\* indexer of step s * t and an offset that is the base position f * t the
\* old indexer gives to f: position i of the new indexer addresses the
\* element at position f + i * s of the old one, for every 0 <= i < size.
C21_RegularComposes ==
    RegularOnRegular =>
        LET old == hist.pre.ix[1]
            new == view.ix[1]
            t == IndexerStep(old)
            s == hist.spans[1].step
            f == RegularFirst(hist.spans[1], Dimensions(dims, hist.pre)[1]).val
        IN  /\ new.k = "regular"
            /\ new.step = s * t
            /\ view.ptr - hist.pre.ptr = f * t
            /\ \A i \in 0..(new.size - 1) :
                  view.ptr + BasePosition(new, i) = hist.pre.ptr + BasePosition(old, f + i * s)

\* a regular span of step -MaxStep was collapsed onto a regular indexer of
\* step -1 and gave more than one element
C21_Witness ==
    /\ RegularOnRegular
    /\ hist.pre.ix[1].k = "regular"
    /\ hist.pre.ix[1].step = -1
    /\ hist.spans[1].step = -MaxStep
    /\ view.ix[1].size >= 2

(***************************************************************************)
(* C22. The temporary of a staged copy.                                     *)
(***************************************************************************)
\* the last assignment was staged and ran to its end
StagedAssigned == hist.op = "assign" /\ hist.path = "staged" /\ status = "ok"

\* C22: a staged copy goes through one temporary of src.size() elements,
\* source to temporary to destination, so that the destination elements
\* (being pairwise distinct) end up holding what the source held before; the
\* element type of the temporary is the smaller of the element types of
\* source and destination, the type of the destination when they are of
\* equal size.
C22_StagedThroughTemporary ==
    StagedAssigned =>
        /\ hist.temp.len = ViewSize(dims, hist.src)
        /\ hist.temp.type = IF SizeOf(hist.temp.src_t) < SizeOf(hist.temp.dst_t)
                            THEN hist.temp.src_t ELSE hist.temp.dst_t
        /\ SizeOf(hist.temp.type) <= SizeOf(hist.temp.src_t)
        /\ SizeOf(hist.temp.type) <= SizeOf(hist.temp.dst_t)
        /\ SizeOf(hist.temp.src_t) = SizeOf(hist.temp.dst_t) => hist.temp.type = hist.temp.dst_t
        /\ Distinct(ElementPositions(dims, hist.pre)) =>
              LET sp == ElementPositions(dims, hist.src)
                  dp == ElementPositions(dims, hist.pre)
              IN  \A i \in 1..Len(dp) : data[dp[i] + 1] = SourceBefore[sp[i] + 1]

\* an irregular view of the second array, of a larger element type, was
\* assigned to an irregular view through a temporary of the destination type
C22_Witness ==
    /\ StagedAssigned
    /\ hist.src.id = 2
    /\ hist.temp.src_t = "int64"
    /\ hist.temp.type = "int"
    /\ hist.temp.len = 2
    /\ data # hist.predata

(***************************************************************************)
(* C23. The elements of a partitioned array.                                *)
(***************************************************************************)
\* the last operation was a partition that returned an array
Partitioned == hist.op = "partition" /\ status = "ok"

\* the index tuple of the source that the index tuple t = (o0, i0, o1, i1,
\* ..., rest) of the partitioned array stands for: (o0 * p0 + i0, o1 * p1 +
\* i1, ..., rest)
SourceTuple(t, part_dims) ==
    LET P == Len(part_dims)
    IN  [j \in 1..(Len(t) - P) |->
            IF j <= P THEN t[2 * j - 1] * part_dims[j] + t[2 * j] ELSE t[j + P]]

\* C23: for part_dims (p0, ..., pP-1) dividing the P leading axes of src
\* exactly, partition returns an array of dimensions (d0/p0, p0, ..., dP-1 /
\* pP-1, pP-1, dP, ..., dD-1) whose element at (o0, i0, o1, i1, ..., rest) is
\* src(o0 * p0 + i0, o1 * p1 + i1, ..., rest), for all indices in range.
C23_PartitionElements ==
    Partitioned =>
        LET P == Len(hist.spans)
            D == Len(hist.predims)
            src == ArrayOperand(1, hist.predims)
        IN  /\ Len(dims) = D + P
            /\ \A j \in 1..P :
                  /\ dims[2 * j] = hist.spans[j]
                  /\ dims[2 * j - 1] = hist.predims[j] \div hist.spans[j]
            /\ \A j \in (P + 1)..D : dims[j + P] = hist.predims[j]
            /\ \A k \in 0..(ProdRange(dims, 1, Len(dims)) - 1) :
                  LET t == RowMajorTuple(dims, k)
                      e == ElemAt(dims, view, t)
                      se == ElemAt(hist.predims, src, SourceTuple(t, hist.spans))
                  IN  e.ok /\ se.ok /\ data[e.pos + 1] = hist.predata[se.pos + 1]

\* a one-level array of 2 * MaxDim elements was split into MaxDim parts of 2
C23_Witness ==
    /\ Partitioned
    /\ hist.predims = <<2 * MaxDim>>
    /\ hist.spans = <<2>>
    /\ dims = <<MaxDim, 2>>

(***************************************************************************)
(* C24. Arithmetic of irregular iterators.                                  *)
(***************************************************************************)
\* C24: on an irregular iterator, += n gives the index tuple that ++ applied
\* n times gives, and -= n the index tuple that -- applied n times gives,
\* for every n >= 0 and every start for which the n unit steps stay within
\* [begin, end], carries and borrows across an axis more than once included.
C24_AdvanceIsRepeatedStep ==
    LET dm == Dimensions(dims, hist.pre)
    IN  /\ hist.op = "iter_add" =>
              hist.iter.result = Increments(hist.iter.start, dm, hist.iter.n)
        /\ hist.op = "iter_sub" =>
              hist.iter.result = Decrements(hist.iter.start, dm, hist.iter.n)

(***************************************************************************)
(* C25. The order in which traverse visits an irregular view.               *)
(***************************************************************************)
\* traverse(fn) on an irregular view calls fn on the elements in the order of
\* at(i0, i1, ...) over the index tuples in row-major order, once per tuple
TraverseInOrder(d, v) ==
    v.vt = "irregular" =>
        /\ Len(TraverseImpl(d, v, 1, 1, 0)) = ViewSize(d, v)
        /\ TraverseImpl(d, v, 1, 1, 0) = ElementPositions(d, v)
        /\ CopyPositions(d, v, ViewSize(d, v)) = ElementPositions(d, v)

\* C25: traverse on an irregular view, and with it copy_to and copy_from,
\* visits each element of the view once, in row-major order of the index
\* tuples of the view: the k-th element visited is the one that at(i0, ...,
\* id-1) returns for the k-th index tuple in lexicographic order, whatever
\* the indexers of the view are.
C25_TraverseRowMajor ==
    /\ TraverseInOrder(dims, view)
    /\ hist.op = "assign" =>
          /\ TraverseInOrder(dims, hist.pre)
          /\ TraverseInOrder(dims, hist.src)

\* an irregular view of two levels, the first with a regular and the second
\* with an irregular indexer, was assigned to, its elements being walked by
\* copy_from
C25_Witness ==
    /\ hist.op = "assign"
    /\ status = "ok"
    /\ hist.pre.vt = "irregular"
    /\ hist.pre.ix[1].k = "regular"
    /\ hist.pre.ix[2].k = "irregular"
    /\ ViewSize(dims, hist.pre) >= 4
    /\ data # hist.predata

(***************************************************************************)
(* C26. Unit steps of regular iterators.                                    *)
(***************************************************************************)
\* C26: on a regular element iterator and on a regular level iterator, ++it
\* leaves the iterator where it += 1 does and --it where it -= 1 does, one
\* element or sub-view after and before where it stood, so that --(++it) is
\* it again.
C26_UnitStepIsAdvanceByOne ==
    /\ hist.op \in {"elem_inc", "view_inc"} =>
          /\ hist.iter.result = RegularAdd(hist.iter.start, 1)
          /\ hist.op = "elem_inc" => RegularElemDec(hist.iter.result) = hist.iter.start
          /\ hist.op = "view_inc" => RegularViewDec(hist.iter.result) = hist.iter.start
    /\ hist.op \in {"elem_dec", "view_dec"} =>
          hist.iter.result = RegularSub(hist.iter.start, 1)

(***************************************************************************)
(* C27. The order of regular element iterators.                             *)
(***************************************************************************)
\* C27: for regular element iterators a and b of one view, of a positive or
\* a negative stride, a < b exactly if b - a > 0, that is if a comes before
\* b in iteration order, and a > b exactly if a - b > 0; begin < end on a
\* view that is not empty.
C27_OrderIsIterationOrder ==
    hist.op = "elem_cmp" =>
        /\ hist.iter.result.diff = hist.iter.n - hist.iter.other.n
        /\ hist.iter.result.less <=> hist.iter.result.rdiff > 0
        /\ hist.iter.result.greater <=> hist.iter.result.diff > 0

(***************************************************************************)
(* C28. Views stay inside the buffer.                                       *)
(***************************************************************************)
\* C28: in a checked build, after slicing calls of which none fired an
\* assertion, each element of the view returned lies inside the buffer of
\* the base array, at a position from 0 up to the product of its dimensions.
C28_ViewInsideBuffer ==
    (hist.op = "vpart" /\ status = "ok") =>
        /\ Len(data) = ProdRange(dims, 1, Len(dims))
        /\ InBuffer(ElementPositions(dims, view), Len(data))

(***************************************************************************)
(* C29. What an assignment leaves alone.                                    *)
(***************************************************************************)
\* C29: an assignment dst = src that touches no element outside a buffer
\* writes only the positions of the base array that dst selects: every
\* other element of the buffer keeps its value, and the dimensions and the
\* length of the buffer stay as they were.
C29_AssignmentFrame ==
    (hist.op = "assign" /\ status # "undefined") =>
        /\ dims = hist.predims
        /\ Len(data) = Len(hist.predata)
        /\ \A p \in 0..(Len(data) - 1) :
              p \notin PositionSet(hist.pre) => data[p + 1] = hist.predata[p + 1]

\* a(All, i) = a(All, j) was assigned on an array of two levels: column i
\* changed
C29_Witness ==
    /\ hist.op = "assign"
    /\ status = "ok"
    /\ Len(dims) = 2
    /\ hist.src.id = 1
    /\ hist.pre.ix[1].k = "all" /\ hist.pre.ix[2].k = "scalar"
    /\ hist.src.ix[1].k = "all" /\ hist.src.ix[2].k = "scalar"
    /\ hist.src.ptr # hist.pre.ptr
    /\ data # hist.predata

(***************************************************************************)
(* C30. The size of an array.                                               *)
(***************************************************************************)
\* C30: an array has as many elements as the product of its dimensions:
\* when made by its dimensions, from data and dimensions under the check of
\* the constructor, from a view, and after resize; and it still has after
\* element writes and assignments from arrays and views (as long as no
\* element outside a buffer was touched, and the product fits size_t).
C30_SizeIsProduct ==
    status # "undefined" =>
        /\ Len(data) = ProdRange(dims, 1, Len(dims))
        /\ hist.op \in {"construct", "materialise"} =>
              Len(hist.made.data) = ProdRange(hist.made.dims, 1, Len(hist.made.dims))
        /\ hist.op = "materialise" =>
              /\ hist.made.dims = Dimensions(dims, hist.pre)
              /\ hist.made.data = [i \in 1..ViewSize(dims, hist.pre) |->
                                      data[ElementPositions(dims, hist.pre)[i] + 1]]

\* the array was resized to more elements than it had
C30_Witness ==
    /\ hist.op = "resize"
    /\ status = "ok"
    /\ dims # hist.predims
    /\ Len(data) > Len(hist.predata)
    /\ Len(dims) = 2

====
